---- MODULE Spec2Model ----
(***************************************************************************)
(* A model of the distributed synchronisation system: the lock manager     *)
(* (src/src/nodes/lock_manager.py), the queue node                         *)
(* (src/src/nodes/queue_node.py), the cache node                           *)
(* (src/src/nodes/cache_node.py) and the Raft engine                       *)
(* (src/src/consensus/raft.py).  Each component has its own next-state     *)
(* relation and specification; the variables of the other components stay  *)
(* at their constructed values.                                            *)
(***************************************************************************)
EXTENDS Integers, Sequences, FiniteSets, TLC

VARIABLES
    \* ---- LockManagerNode ----
    node_state,        \* BaseNode.state of the lock manager node
    lm_cluster_nodes,  \* the node ids in BaseNode.cluster_nodes of that node
    leader_id,         \* BaseNode.leader_id of the lock manager node ("" is None)
    locks,             \* LockManagerNode.locks: lock_id -> Lock
    wait_for_graph,    \* LockManagerNode.wait_for_graph: requester -> set
    lm_reply,          \* the last call made on the lock manager and its reply
    \* ---- QueueNode ----
    queues,            \* QueueNode.queues: queue name -> deque of message ids
    messages,          \* QueueNode.messages: message id -> Message
    consumers,         \* QueueNode.consumers: queue name -> set of consumer ids
    arrival,           \* per queue, its entries in the order they were inserted
    \* ---- CacheNode (one per node of the cluster) ----
    cache,             \* node -> CacheNode.cache: the entries in dict order
    cache_directory,   \* node -> CacheNode.cache_directory: key -> set of node ids
    cache_clock,       \* datetime.now() as CacheEntry.__init__ reads it (a counter)
    \* ---- RaftNode (one per node of the cluster) ----
    raft,              \* node -> the fields of its RaftNode
    apply_task,        \* node -> an apply_committed_entries task is scheduled
    rpc_sent,          \* the requests in flight between the nodes
    pending,           \* node -> its coroutines suspended at an await
    \* ---- FailureDetector ----
    fd_nodes,          \* FailureDetector.nodes: node id -> its phi detector
    node_status,       \* FailureDetector.node_status: node id -> status
    fd_now,            \* time.time() as the detectors read it (a counter)
    fd_call,           \* the last call on the detector and the callbacks it fired
    \* ---- MessagePasser ----
    received_messages, \* MessagePasser.received_messages: message id -> Message
    messages_received, \* MessagePasser.messages_received
    message_handlers,  \* the message types of MessagePasser.message_handlers
    mp_handled,        \* message id -> the calls of a handler with that message
    mp_acked,          \* message id -> the calls of send_ack for that message
    mp_calls,          \* the calls of receive_message made so far
    \* ---- ConsistentHash ----
    ring,              \* ConsistentHash.ring: hash value -> node id
    sorted_keys,       \* ConsistentHash.sorted_keys
    ch_nodes,          \* ConsistentHash.nodes
    ch_call,           \* the last call on the consistent hash and its result
    \* ---- a RaftNode whose cluster is itself ----
    solo,              \* the fields of the RaftNode
    solo_call          \* the last call on it and the value it returned

lm_vars == <<node_state, lm_cluster_nodes, leader_id, locks, wait_for_graph,
            lm_reply>>
q_vars == <<queues, messages, consumers, arrival>>
c_vars == <<cache, cache_directory, cache_clock>>
r_vars == <<raft, apply_task, rpc_sent, pending>>
fd_vars == <<fd_nodes, node_status, fd_now, fd_call>>
mp_vars == <<received_messages, messages_received, message_handlers,
            mp_handled, mp_acked, mp_calls>>
ch_vars == <<ring, sorted_keys, ch_nodes, ch_call>>
solo_vars == <<solo, solo_call>>
other_vars == <<fd_vars, mp_vars, ch_vars, solo_vars>>

vars == <<node_state, lm_cluster_nodes, leader_id, locks, wait_for_graph, lm_reply,
          queues, messages, consumers, arrival,
          cache, cache_directory, cache_clock,
          raft, apply_task, rpc_sent, pending,
          fd_nodes, node_status, fd_now, fd_call,
          received_messages, messages_received, message_handlers,
          mp_handled, mp_acked, mp_calls,
          ring, sorted_keys, ch_nodes, ch_call,
          solo, solo_call>>

(***************************************************************************)
(*                              Lock manager                               *)
(***************************************************************************)

\* the node_id of the lock manager node, and the node ids its peers announce
\* as leader in their heartbeats
lm_node_id == "lm1"
HeartbeatLeaders == {"lm2"}

LockIds == {"A", "B"}
Requesters == {"c1", "c2", "c3"}
LockTypes == {"shared", "exclusive"}
\* the number of queued requests the model lets the lock table hold
MaxWaiters == 2

NoReply == [op |-> "none", status |-> "", message |-> "", queue_position |-> 0]

\* Lock.__init__: the creator is the only holder, nobody waits
NewLock(lock_type, holder_id) ==
    [lock_type |-> lock_type, holders |-> {holder_id}, waiting_queue |-> <<>>]

\* a can_acquire that forgets to look at the requested mode
can_acquire_AlwaysShared(lock, lock_type) ==
    \/ lock.holders = {}
    \/ lock.lock_type = "shared"

\* Lock.can_acquire
can_acquire(lock, lock_type) ==
    \/ lock.holders = {}
    \/ (lock_type = "shared" /\ lock.lock_type = "shared")

\* Lock.acquire, on a lock that can be acquired
LockAcquire(lock, holder_id, lock_type) ==
    [lock EXCEPT !.holders = @ \cup {holder_id}, !.lock_type = lock_type]

\* Lock.is_locked
is_locked(lock) == lock.holders # {}

\* dict access / deletion on a function with a finite domain
DictSet(d, k, v) == [x \in (DOMAIN d) \cup {k} |-> IF x = k THEN v ELSE d[x]]
DictDel(d, k) == [x \in (DOMAIN d) \ {k} |-> d[x]]

RECURSIVE has_cycle(_, _, _, _)
RECURSIVE has_cycle_neighbors(_, _, _, _)

\* the loop "for neighbor in temp_graph[node]" of has_cycle; todo is the part
\* of the neighbour set not yet iterated.  Returns [found, visited].
has_cycle_neighbors(graph, todo, visited, rec_stack) ==
    IF todo = {} THEN [found |-> FALSE, visited |-> visited]
    ELSE LET neighbor == CHOOSE x \in todo : TRUE
             rest == todo \ {neighbor}
         IN  IF neighbor \notin visited
             THEN LET r == has_cycle(graph, neighbor, visited, rec_stack)
                  IN  IF r.found THEN r
                      ELSE has_cycle_neighbors(graph, rest, r.visited, rec_stack)
             ELSE IF neighbor \in rec_stack
                  THEN [found |-> TRUE, visited |-> visited]
                  ELSE has_cycle_neighbors(graph, rest, visited, rec_stack)

\* the nested has_cycle(node) of would_cause_deadlock: depth-first search with
\* a visited set and a recursion stack
has_cycle(graph, node, visited, rec_stack) ==
    LET v1 == visited \cup {node}
        s1 == rec_stack \cup {node}
    IN  IF node \in DOMAIN graph
        THEN has_cycle_neighbors(graph, graph[node], v1, s1)
        ELSE [found |-> FALSE, visited |-> v1]

\* the temporary graph of would_cause_deadlock: the wait-for graph plus an edge
\* from the requester to every current holder of the lock
temp_graph(requester_id, lock_id) ==
    LET old == IF requester_id \in DOMAIN wait_for_graph
               THEN wait_for_graph[requester_id] ELSE {}
    IN  DictSet(wait_for_graph, requester_id, old \cup locks[lock_id].holders)

\* LockManagerNode.would_cause_deadlock
would_cause_deadlock(requester_id, lock_id) ==
    IF lock_id \notin DOMAIN locks THEN FALSE
    ELSE has_cycle(temp_graph(requester_id, lock_id), requester_id, {}, {}).found

\* what the model keeps of a call: the operation and the fields of its reply
LockReply(op, lock_id, requester_id, lock_type, status, message, pos) ==
    [op |-> op, status |-> status, message |-> message, queue_position |-> pos]

\* a refusal that still enqueues the request
DeadlockBranch_Enqueue(lock_id, requester_id, lock_type) ==
    [locks |-> [locks EXCEPT ![lock_id].waiting_queue =
                    Append(@, [requester_id |-> requester_id, lock_type |-> lock_type])],
     wait_for_graph |-> wait_for_graph,
     status |-> "error", message |-> "Deadlock detected", pos |-> 0]

\* acquire_lock, the branch taken when would_cause_deadlock is true: the
\* request is refused and nothing is changed
DeadlockBranch(lock_id, requester_id, lock_type) ==
    [locks |-> locks, wait_for_graph |-> wait_for_graph,
     status |-> "error", message |-> "Deadlock detected", pos |-> 0]

\* acquire_lock, the branch that appends the request to the waiting queue and
\* adds the edges requester -> holder to the wait-for graph
WaitBranch(lock_id, requester_id, lock_type) ==
    LET lock == locks[lock_id]
        q == Append(lock.waiting_queue,
                    [requester_id |-> requester_id, lock_type |-> lock_type])
        old == IF requester_id \in DOMAIN wait_for_graph
               THEN wait_for_graph[requester_id] ELSE {}
    IN  [locks |-> [locks EXCEPT ![lock_id].waiting_queue = q],
         wait_for_graph |-> DictSet(wait_for_graph, requester_id, old \cup lock.holders),
         status |-> "waiting", message |-> "", pos |-> Len(q)]

\* a refusal that also drops the lock table
NotLeaderReply_Drops ==
    [locks |-> << >>, wait_for_graph |-> wait_for_graph,
     status |-> "error", message |-> "Not the leader", pos |-> 0,
     leader_id |-> leader_id]

\* acquire_lock and release_lock on a node that is not the leader: the reply
\* carries self.leader_id and nothing changes
NotLeaderReply ==
    [locks |-> locks, wait_for_graph |-> wait_for_graph,
     status |-> "error", message |-> "Not the leader", pos |-> 0,
     leader_id |-> leader_id]

\* LockManagerNode.acquire_lock as a function of the current state: the new
\* lock table, the new wait-for graph and the reply
acquire_lock(lock_id, requester_id, lock_type) ==
    IF node_state # "leader"
    THEN NotLeaderReply
    ELSE IF would_cause_deadlock(requester_id, lock_id)
    THEN DeadlockBranch(lock_id, requester_id, lock_type)
    ELSE IF lock_id \notin DOMAIN locks
    THEN [locks |-> DictSet(locks, lock_id, NewLock(lock_type, requester_id)),
          wait_for_graph |-> wait_for_graph,
          status |-> "acquired", message |-> "", pos |-> 0]
    ELSE IF can_acquire(locks[lock_id], lock_type)
    THEN [locks |-> [locks EXCEPT ![lock_id] = LockAcquire(@, requester_id, lock_type)],
          wait_for_graph |-> wait_for_graph,
          status |-> "acquired", message |-> "", pos |-> 0]
    ELSE WaitBranch(lock_id, requester_id, lock_type)

\* a hand-over that serves the waiter enqueued last
process_waiting_queue_Last(lt, g, lock_id) ==
    LET lock == lt[lock_id]
        n == Len(lock.waiting_queue)
        waiting == lock.waiting_queue[n]
        granted == [LockAcquire(lock, waiting.requester_id, waiting.lock_type)
                       EXCEPT !.waiting_queue = SubSeq(lock.waiting_queue, 1, n - 1)]
    IN  [locks |-> [lt EXCEPT ![lock_id] = granted],
         wait_for_graph |-> DictDel(g, waiting.requester_id)]

\* LockManagerNode.process_waiting_queue on a lock table lt and graph g: with a
\* non-empty queue and no holder it pops the head, which Lock.acquire then
\* always admits, and stops (break)
process_waiting_queue(lt, g, lock_id) ==
    IF lock_id \notin DOMAIN lt THEN [locks |-> lt, wait_for_graph |-> g]
    ELSE LET lock == lt[lock_id]
         IN  IF lock.waiting_queue # <<>> /\ ~is_locked(lock)
             THEN LET waiting == Head(lock.waiting_queue)
                      granted == [LockAcquire(lock, waiting.requester_id, waiting.lock_type)
                                     EXCEPT !.waiting_queue = Tail(lock.waiting_queue)]
                  IN  [locks |-> [lt EXCEPT ![lock_id] = granted],
                       wait_for_graph |-> DictDel(g, waiting.requester_id)]
             ELSE [locks |-> lt, wait_for_graph |-> g]

\* a release that only takes the holder out
release_lock_HolderOnly(lt, g, lock_id, holder_id) ==
    IF lock_id \notin DOMAIN lt
    THEN [locks |-> lt, wait_for_graph |-> g,
          status |-> "error", message |-> "Lock not found"]
    ELSE IF holder_id \notin lt[lock_id].holders
    THEN [locks |-> lt, wait_for_graph |-> g,
          status |-> "error", message |-> "Not a lock holder"]
    ELSE [locks |-> [lt EXCEPT ![lock_id].holders = @ \ {holder_id}],
          wait_for_graph |-> DictDel(g, holder_id),
          status |-> "released", message |-> ""]

\* LockManagerNode.release_lock on a lock table lt and graph g, the node
\* being the leader
release_lock(lt, g, lock_id, holder_id) ==
    IF lock_id \notin DOMAIN lt
    THEN [locks |-> lt, wait_for_graph |-> g,
          status |-> "error", message |-> "Lock not found"]
    ELSE IF holder_id \notin lt[lock_id].holders
    THEN [locks |-> lt, wait_for_graph |-> g,
          status |-> "error", message |-> "Not a lock holder"]
    ELSE LET lt1 == [lt EXCEPT ![lock_id].holders = @ \ {holder_id}]
             g1 == DictDel(g, holder_id)
             p == IF ~is_locked(lt1[lock_id]) /\ lt1[lock_id].waiting_queue # <<>>
                  THEN process_waiting_queue(lt1, g1, lock_id)
                  ELSE [locks |-> lt1, wait_for_graph |-> g1]
             lt2 == IF ~is_locked(p.locks[lock_id]) /\ p.locks[lock_id].waiting_queue = <<>>
                    THEN DictDel(p.locks, lock_id)
                    ELSE p.locks
         IN  [locks |-> lt2, wait_for_graph |-> p.wait_for_graph,
              status |-> "released", message |-> ""]

\* LockManagerNode.release_lock as a function of the current state
release_lock_call(lock_id, holder_id) ==
    IF node_state # "leader"
    THEN NotLeaderReply
    ELSE release_lock(locks, wait_for_graph, lock_id, holder_id)

RECURSIVE release_holders(_, _, _, _)
\* the inner loop of check_lock_timeouts: release_lock for every holder the
\* lock had when the sweep started.  The releases of one sweep commute, so the
\* iteration order of the holder set does not show in the result.
release_holders(lt, g, lock_id, holders) ==
    IF holders = {} THEN [locks |-> lt, wait_for_graph |-> g]
    ELSE LET h == CHOOSE x \in holders : TRUE
             r == release_lock(lt, g, lock_id, h)
         IN  release_holders(r.locks, r.wait_for_graph, lock_id, holders \ {h})

RECURSIVE release_expired(_, _, _, _)
\* the outer loop of check_lock_timeouts over expired_locks, the
\* (lock_id, holders.copy()) pairs collected before any release
release_expired(lt, g, expired, snapshot) ==
    IF expired = {} THEN [locks |-> lt, wait_for_graph |-> g]
    ELSE LET l == CHOOSE x \in expired : TRUE
             r == release_holders(lt, g, l, snapshot[l].holders)
         IN  release_expired(r.locks, r.wait_for_graph, expired \ {l}, snapshot)

\* ---- actions of the lock manager ----

RECURSIVE SumWaiters(_, _)
SumWaiters(lt, ids) ==
    IF ids = {} THEN 0
    ELSE LET l == CHOOSE x \in ids : TRUE
         IN  Len(lt[l].waiting_queue) + SumWaiters(lt, ids \ {l})

\* the number of queued requests in a lock table (the model stops enqueuing at
\* MaxWaiters of them)
TotalWaiters(lt) == SumWaiters(lt, DOMAIN lt)

\* the acquire requests the clients of the model issue: c1 and c2 ask for
\* lock A in both modes and for lock B exclusively, c3 asks for lock A shared
AcquireInputs ==
    {<<"A", r, t>> : r \in {"c1", "c2"}, t \in LockTypes}
        \cup {<<"A", "c3", "shared">>}
        \cup {<<"B", r, "exclusive">> : r \in {"c1", "c2"}}

\* a client calls acquire_lock
AcquireLock(lock_id, requester_id, lock_type) ==
    LET r == acquire_lock(lock_id, requester_id, lock_type)
    IN  /\ TotalWaiters(r.locks) <= MaxWaiters
        /\ locks' = r.locks
        /\ wait_for_graph' = r.wait_for_graph
        /\ lm_reply' = LockReply("acquire", lock_id, requester_id, lock_type,
                                 r.status, r.message, r.pos)
        /\ UNCHANGED <<node_state, lm_cluster_nodes, leader_id>>
        /\ UNCHANGED <<q_vars, c_vars, r_vars, other_vars>>

\* a client calls release_lock
ReleaseLock(lock_id, holder_id) ==
    LET r == release_lock_call(lock_id, holder_id)
    IN  /\ locks' = r.locks
        /\ wait_for_graph' = r.wait_for_graph
        /\ lm_reply' = LockReply("release", lock_id, holder_id, "",
                                 r.status, r.message, 0)
        /\ UNCHANGED <<node_state, lm_cluster_nodes, leader_id>>
        /\ UNCHANGED <<q_vars, c_vars, r_vars, other_vars>>

\* one round of timeout_checker: on the leader it runs check_lock_timeouts;
\* expired is the set of locks whose is_expired() is true at that moment (time
\* is not modelled: any set of locks may have expired)
CheckLockTimeouts(expired) ==
    LET r == release_expired(locks, wait_for_graph, expired, locks)
    IN  /\ node_state = "leader"
        /\ locks' = r.locks
        /\ wait_for_graph' = r.wait_for_graph
        /\ lm_reply' = LockReply("check_lock_timeouts", "", "", "", "", "", 0)
        /\ UNCHANGED <<node_state, lm_cluster_nodes, leader_id>>
        /\ UNCHANGED <<q_vars, c_vars, r_vars, other_vars>>

\* the node ids add_cluster_node is called with: the node's own id and a peer
ClusterIds == {"lm1", "lm2"}

\* BaseNode.add_cluster_node
AddClusterNode(n) ==
    /\ n \notin lm_cluster_nodes
    /\ lm_cluster_nodes' = lm_cluster_nodes \cup {n}
    /\ UNCHANGED <<node_state, leader_id, locks, wait_for_graph, lm_reply>>
    /\ UNCHANGED <<q_vars, c_vars, r_vars, other_vars>>

\* BaseNode.start_election, the state afterwards: request_vote returns True
\* for every node of cluster_nodes other than the node itself, and the node
\* becomes the leader (become_leader) when these votes and its own reach
\* votes_needed; otherwise it is a FOLLOWER again.  No step of the coroutine
\* suspends, so CANDIDATE is never seen by another callback.
start_election_base(nodes) ==
    LET votes_received == 1 + Cardinality(nodes \ {lm_node_id})
        votes_needed == ((Cardinality(nodes) + 1) \div 2) + 1
    IN  IF votes_received >= votes_needed
        THEN [state |-> "leader", leader_id |-> lm_node_id]
        ELSE [state |-> "follower", leader_id |-> leader_id]

StartElection ==
    LET r == start_election_base(lm_cluster_nodes)
    IN  /\ node_state' = r.state
        /\ leader_id' = r.leader_id
        /\ lm_reply' = LockReply("start_election", "", "", "", "", "", 0)
        /\ UNCHANGED <<lm_cluster_nodes, locks, wait_for_graph>>
        /\ UNCHANGED <<q_vars, c_vars, r_vars, other_vars>>

\* BaseNode.receive_heartbeat(leader, term) with a term that is not stale
ReceiveHeartbeat(leader) ==
    /\ node_state' = "follower"
    /\ leader_id' = leader
    /\ lm_reply' = LockReply("receive_heartbeat", "", "", "", "", "", 0)
    /\ UNCHANGED <<lm_cluster_nodes, locks, wait_for_graph>>
    /\ UNCHANGED <<q_vars, c_vars, r_vars, other_vars>>

\* BaseNode.stop: the node is OFFLINE and keeps everything else
Stop ==
    /\ node_state' = "offline"
    /\ lm_reply' = LockReply("stop", "", "", "", "", "", 0)
    /\ UNCHANGED <<lm_cluster_nodes, leader_id, locks, wait_for_graph>>
    /\ UNCHANGED <<q_vars, c_vars, r_vars, other_vars>>

InitLock ==
    /\ node_state = "follower"
    /\ lm_cluster_nodes = {}
    /\ leader_id = ""
    /\ locks = << >>
    /\ wait_for_graph = << >>
    /\ lm_reply = NoReply

NextLock ==
    \/ \E i \in AcquireInputs : AcquireLock(i[1], i[2], i[3])
    \/ \E l \in LockIds, r \in Requesters : ReleaseLock(l, r)
    \/ \E e \in SUBSET (DOMAIN locks) : e # {} /\ CheckLockTimeouts(e)
    \/ StartElection
    \/ \E l \in HeartbeatLeaders : ReceiveHeartbeat(l)
    \/ \E n \in ClusterIds : AddClusterNode(n)
    \/ Stop

(***************************************************************************)
(*                      Properties of the lock manager                     *)
(***************************************************************************)

\* C1: in every reachable state of the lock manager every lock whose mode is
\* EXCLUSIVE has at most one holder.
C1_ExclusiveSingleHolder ==
    \A l \in DOMAIN locks :
        locks[l].lock_type = "exclusive" => Cardinality(locks[l].holders) <= 1

\* an EXCLUSIVE lock with its one holder and a queued request, after a sweep
C1_Witness ==
    /\ lm_reply.op = "check_lock_timeouts"
    /\ \E l \in DOMAIN locks :
          /\ locks[l].lock_type = "exclusive"
          /\ Cardinality(locks[l].holders) = 1
          /\ locks[l].waiting_queue # <<>>

\* C5: in every reachable state of a leader, an acquire_lock for which
\* would_cause_deadlock is true replies status error, message 'Deadlock
\* detected', and leaves the lock table (holders and waiting queues) and the
\* wait-for graph as they were.
C5_DeadlockRefused ==
    \A l \in LockIds, r \in Requesters, t \in LockTypes :
        (node_state = "leader" /\ would_cause_deadlock(r, l))
        => LET res == acquire_lock(l, r, t)
           IN  /\ res.status = "error"
               /\ res.message = "Deadlock detected"
               /\ res.locks = locks
               /\ res.wait_for_graph = wait_for_graph

\* a request that closes a cycle through another requester has just been
\* refused
C5_Witness ==
    /\ lm_reply.op = "acquire"
    /\ lm_reply.message = "Deadlock detected"
    /\ \E l \in DOMAIN locks, r \in Requesters :
          /\ would_cause_deadlock(r, l)
          /\ r \notin locks[l].holders

\* C6: in every reachable state of a leader, a request that cannot be
\* granted and closes no cycle is answered waiting, with queue_position the
\* 1-based place of the appended request in the lock's waiting queue; and a
\* release (by release_lock or by the timeout sweep) that empties the holder
\* set of a lock with waiters removes the earliest enqueued waiter from the
\* queue and makes it the holder.
C6_WaitingFifo ==
    node_state = "leader" =>
    /\ \A l \in DOMAIN locks, r \in Requesters, t \in LockTypes :
          (~can_acquire(locks[l], t) /\ ~would_cause_deadlock(r, l))
          => LET res == acquire_lock(l, r, t)
                 q == res.locks[l].waiting_queue
             IN  /\ res.status = "waiting"
                 /\ res.pos = Len(q)
                 /\ q = Append(locks[l].waiting_queue,
                               [requester_id |-> r, lock_type |-> t])
    /\ \A l \in DOMAIN locks, h \in Requesters :
          (locks[l].holders = {h} /\ locks[l].waiting_queue # <<>>)
          => LET res == release_lock(locks, wait_for_graph, l, h)
             IN  /\ res.status = "released"
                 /\ res.locks[l].holders = {Head(locks[l].waiting_queue).requester_id}
                 /\ res.locks[l].waiting_queue = Tail(locks[l].waiting_queue)
    /\ \A e \in SUBSET (DOMAIN locks) : \A l \in e :
          locks[l].waiting_queue # <<>>
          => LET res == release_expired(locks, wait_for_graph, e, locks)
             IN  /\ res.locks[l].holders = {Head(locks[l].waiting_queue).requester_id}
                 /\ res.locks[l].waiting_queue = Tail(locks[l].waiting_queue)

\* a release has handed an exclusive lock to the first of two waiters: the
\* second still waits, with its edge to the holder that released
C6_Witness ==
    /\ lm_reply.op = "release"
    /\ lm_reply.status = "released"
    /\ \E l \in DOMAIN locks : \E w, v, h \in Requesters :
          /\ w # v /\ h # w /\ h # v
          /\ locks[l].lock_type = "exclusive"
          /\ locks[l].holders = {w}
          /\ Len(locks[l].waiting_queue) = 1
          /\ locks[l].waiting_queue[1].requester_id = v
          /\ v \in DOMAIN wait_for_graph
          /\ wait_for_graph[v] = {h}


(***************************************************************************)
(*                               Queue node                                *)
(***************************************************************************)

QueueNames == {"q1", "q2"}
Consumers == {"w1", "w2"}
Priorities == {0, 1}
\* Message.max_attempts
MaxAttempts == 3
\* the number of queue entries, over all queues, the model lets build up
MaxQueued == 2

\* message ids: enqueue numbers them with len(self.messages); the model
\* enqueues these
MsgIds == {0, 1}

\* Message.__init__
NewMessage(priority) ==
    [priority |-> priority, status |-> "pending", attempts |-> 0,
     max_attempts |-> MaxAttempts, delivered_to |-> {}]

SeqMin(S) == CHOOSE x \in S : \A y \in S : x <= y

\* an insert that also goes in front of entries of its own priority
insert_index_GE(queue, msgs, priority) ==
    LET lower == {i \in 1 .. Len(queue) :
                     queue[i] \in DOMAIN msgs /\ priority >= msgs[queue[i]].priority}
    IN  IF lower = {} THEN Len(queue) + 1 ELSE SeqMin(lower)

\* the loop of _insert_by_priority: the index (1-based) of the first entry whose
\* message has a strictly lower priority, or one past the end
insert_index(queue, msgs, priority) ==
    LET lower == {i \in 1 .. Len(queue) :
                     queue[i] \in DOMAIN msgs /\ priority > msgs[queue[i]].priority}
    IN  IF lower = {} THEN Len(queue) + 1 ELSE SeqMin(lower)

\* QueueNode._insert_by_priority on the deque queue
insert_by_priority(queue, msgs, message_id) ==
    LET p == insert_index(queue, msgs, msgs[message_id].priority)
    IN  SubSeq(queue, 1, p - 1) \o <<message_id>> \o SubSeq(queue, p, Len(queue))

\* a sequence without the first occurrence of x
RemoveFirst(seq, x) ==
    LET at == {i \in 1 .. Len(seq) : seq[i] = x}
    IN  IF at = {} THEN seq
        ELSE LET p == SeqMin(at)
             IN  SubSeq(seq, 1, p - 1) \o SubSeq(seq, p + 1, Len(seq))

RECURSIVE dequeue(_, _, _, _, _, _)
\* QueueNode.dequeue on queues qs, messages msgs, consumers cons and the
\* insertion record arr: the new state and the reply
dequeue(qs, msgs, cons, arr, queue_name, consumer_id) ==
    IF queue_name \notin DOMAIN qs
    THEN [queues |-> qs, messages |-> msgs, consumers |-> cons, arrival |-> arr,
          status |-> "error", message_id |-> -1]
    ELSE IF qs[queue_name] = <<>>
    THEN [queues |-> qs, messages |-> msgs, consumers |-> cons, arrival |-> arr,
          status |-> "empty", message_id |-> -1]
    ELSE LET message_id == Head(qs[queue_name])
             qs1 == [qs EXCEPT ![queue_name] = Tail(@)]
             arr1 == [arr EXCEPT ![queue_name] = RemoveFirst(@, message_id)]
         IN  IF message_id \notin DOMAIN msgs
             THEN dequeue(qs1, msgs, cons, arr1, queue_name, consumer_id)
             ELSE [queues |-> qs1,
                   messages |-> [msgs EXCEPT ![message_id].status = "processing",
                                             ![message_id].attempts = @ + 1,
                                             ![message_id].delivered_to = @ \cup {consumer_id}],
                   consumers |-> [cons EXCEPT ![queue_name] = @ \cup {consumer_id}],
                   arrival |-> arr1,
                   status |-> "success", message_id |-> message_id]

\* the number of entries in all queues
RECURSIVE SumQueued(_, _)
SumQueued(qs, names) ==
    IF names = {} THEN 0
    ELSE LET n == CHOOSE x \in names : TRUE
         IN  Len(qs[n]) + SumQueued(qs, names \ {n})

TotalQueued(qs) == SumQueued(qs, DOMAIN qs)

\* QueueNode.create_queue
create_queue(qs, cons, arr, queue_name) ==
    IF queue_name \in DOMAIN qs
    THEN [queues |-> qs, consumers |-> cons, arrival |-> arr, status |-> "error"]
    ELSE [queues |-> DictSet(qs, queue_name, <<>>),
          consumers |-> DictSet(cons, queue_name, {}),
          arrival |-> DictSet(arr, queue_name, <<>>),
          status |-> "success"]

\* QueueNode.enqueue; replicate_message only logs
enqueue(qs, msgs, cons, arr, queue_name, priority) ==
    LET message_id == Cardinality(DOMAIN msgs)
        c == IF queue_name \in DOMAIN qs
             THEN [queues |-> qs, consumers |-> cons, arrival |-> arr]
             ELSE create_queue(qs, cons, arr, queue_name)
        msgs1 == DictSet(msgs, message_id, NewMessage(priority))
    IN  [queues |-> [c.queues EXCEPT ![queue_name] =
                        insert_by_priority(@, msgs1, message_id)],
         messages |-> msgs1,
         consumers |-> c.consumers,
         arrival |-> [c.arrival EXCEPT ![queue_name] = Append(@, message_id)],
         status |-> "success", message_id |-> message_id]

\* QueueNode.acknowledge
acknowledge(msgs, message_id, consumer_id) ==
    IF message_id \notin DOMAIN msgs
    THEN [messages |-> msgs, status |-> "error"]
    ELSE [messages |-> [msgs EXCEPT ![message_id].status = "delivered"],
          status |-> "success"]

\* QueueNode.negative_acknowledge.  With a queue_name that is no queue,
\* _insert_by_priority raises KeyError after the status was set to PENDING
\* (process_message turns the exception into an error reply).
negative_acknowledge(qs, msgs, arr, message_id, queue_name) ==
    IF message_id \notin DOMAIN msgs
    THEN [queues |-> qs, messages |-> msgs, arrival |-> arr, status |-> "error"]
    ELSE IF msgs[message_id].attempts >= msgs[message_id].max_attempts
    THEN [queues |-> qs,
          messages |-> [msgs EXCEPT ![message_id].status = "failed"],
          arrival |-> arr, status |-> "failed"]
    ELSE LET msgs1 == [msgs EXCEPT ![message_id].status = "pending"]
         IN  IF queue_name \notin DOMAIN qs
             THEN [queues |-> qs, messages |-> msgs1, arrival |-> arr,
                   status |-> "error"]
             ELSE [queues |-> [qs EXCEPT ![queue_name] =
                                  insert_by_priority(@, msgs1, message_id)],
                   messages |-> msgs1,
                   arrival |-> [arr EXCEPT ![queue_name] = Append(@, message_id)],
                   status |-> "requeued"]

\* ---- actions of the queue node ----

CreateQueue(queue_name) ==
    LET r == create_queue(queues, consumers, arrival, queue_name)
    IN  /\ queues' = r.queues
        /\ consumers' = r.consumers
        /\ arrival' = r.arrival
        /\ UNCHANGED messages
        /\ UNCHANGED <<lm_vars, c_vars, r_vars, other_vars>>

Enqueue(queue_name, priority) ==
    LET r == enqueue(queues, messages, consumers, arrival, queue_name, priority)
    IN  /\ r.message_id \in MsgIds
        /\ TotalQueued(queues) < MaxQueued
        /\ queues' = r.queues
        /\ messages' = r.messages
        /\ consumers' = r.consumers
        /\ arrival' = r.arrival
        /\ UNCHANGED <<lm_vars, c_vars, r_vars, other_vars>>

Dequeue(queue_name, consumer_id) ==
    LET r == dequeue(queues, messages, consumers, arrival, queue_name, consumer_id)
    IN  /\ queues' = r.queues
        /\ messages' = r.messages
        /\ consumers' = r.consumers
        /\ arrival' = r.arrival
        /\ UNCHANGED <<lm_vars, c_vars, r_vars, other_vars>>

Acknowledge(message_id, consumer_id) ==
    LET r == acknowledge(messages, message_id, consumer_id)
    IN  /\ messages' = r.messages
        /\ UNCHANGED <<queues, consumers, arrival>>
        /\ UNCHANGED <<lm_vars, c_vars, r_vars, other_vars>>

NegativeAcknowledge(message_id, queue_name) ==
    LET r == negative_acknowledge(queues, messages, arrival, message_id, queue_name)
    IN  /\ TotalQueued(r.queues) <= MaxQueued
        /\ queues' = r.queues
        /\ messages' = r.messages
        /\ arrival' = r.arrival
        /\ UNCHANGED consumers
        /\ UNCHANGED <<lm_vars, c_vars, r_vars, other_vars>>

\* the dequeue calls the model makes: consumer w1 on either queue (w2 only
\* acknowledges)
DequeueInputs == {<<q, "w1">> : q \in QueueNames}

InitQueue ==
    /\ queues = << >>
    /\ messages = << >>
    /\ consumers = << >>
    /\ arrival = << >>

NextQueue ==
    \/ \E q \in QueueNames : CreateQueue(q)
    \/ \E q \in QueueNames, p \in Priorities : Enqueue(q, p)
    \/ \E i \in DequeueInputs : Dequeue(i[1], i[2])
    \/ \E m \in MsgIds, c \in Consumers : Acknowledge(m, c)
    \/ \E m \in MsgIds, q \in QueueNames : NegativeAcknowledge(m, q)

(***************************************************************************)
(*                               Cache nodes                               *)
(***************************************************************************)
\* The hits, misses and invalidations counters of a CacheNode are statistics
\* that only get_stats reads; they are not part of the modelled state.

CacheNodes == {"n1", "n2", "n3"}
CacheKeys == {"k1", "k2"}
CacheValues == {"a", "b"}

\* the constructor arguments of the nodes: n1 and n2 hold one entry, under
\* LRU and LFU; n3 holds two entries under FIFO
Capacity == [n \in CacheNodes |-> IF n = "n3" THEN 2 ELSE 1]
Policy == [n \in CacheNodes |->
              IF n = "n1" THEN "lru" ELSE IF n = "n2" THEN "lfu" ELSE "fifo"]

\* access_count and version are capped for the model
MaxAccess == 3
MaxVersion == 2
\* the number of entries the model lets the nodes create (each creation reads
\* a later time)
MaxClock == 4

\* CacheEntry.__init__
NewEntry(key, value, state) ==
    [key |-> key, value |-> value, state |-> state, access_count |-> 0, version |-> 0,
     created_at |-> cache_clock]

\* the position of key in the cache c, 0 when it is not cached
KeyIndex(c, key) ==
    LET at == {i \in 1 .. Len(c) : c[i].key = key}
    IN  IF at = {} THEN 0 ELSE CHOOSE i \in at : TRUE

RemoveAt(c, i) == SubSeq(c, 1, i - 1) \o SubSeq(c, i + 1, Len(c))

\* CacheEntry.access
access(entry) == [entry EXCEPT !.access_count = @ + 1]

\* LRUCache.get: the cache afterwards; the entry, when found, is moved to the
\* end and accessed
LRUCache_get(c, key) ==
    LET i == KeyIndex(c, key)
    IN  IF i = 0 THEN c ELSE Append(RemoveAt(c, i), access(c[i]))

\* LFUCache.get: the entry, when found, is accessed in place
LFUCache_get(c, key) ==
    LET i == KeyIndex(c, key)
    IN  IF i = 0 THEN c ELSE [c EXCEPT ![i] = access(@)]

\* self.cache.get(key) of a node with the given policy
cache_get(policy, c, key) ==
    IF policy = "lfu" THEN LFUCache_get(c, key) ELSE LRUCache_get(c, key)

\* LRUCache.put: the entry goes to the end; over capacity the first entry is
\* evicted
LRUCache_put(c, capacity, key, entry) ==
    LET i == KeyIndex(c, key)
        c1 == IF i = 0 THEN Append(c, entry) ELSE Append(RemoveAt(c, i), entry)
    IN  IF Len(c1) > capacity THEN Tail(c1) ELSE c1

\* LFUCache.put: the entry replaces or is added; over capacity the first
\* entry of least access_count is evicted
LFUCache_put(c, capacity, key, entry) ==
    LET i == KeyIndex(c, key)
        c1 == IF i = 0 THEN Append(c, entry) ELSE [c EXCEPT ![i] = entry]
        least == {j \in 1 .. Len(c1) :
                     \A k \in 1 .. Len(c1) : c1[j].access_count <= c1[k].access_count}
    IN  IF Len(c1) > capacity THEN RemoveAt(c1, SeqMin(least)) ELSE c1

\* self.cache.put(key, entry)
cache_put(policy, c, capacity, key, entry) ==
    IF policy = "lfu" THEN LFUCache_put(c, capacity, key, entry)
    ELSE LRUCache_put(c, capacity, key, entry)

\* CacheNode.write_back on an entry
write_back(entry) ==
    IF entry.state = "modified" THEN [entry EXCEPT !.state = "exclusive"] ELSE entry

\* CacheNode.invalidate_peers: no message is sent, only the directory of the
\* node changes; exclude_node is "" for None
invalidate_peers(dir, key, exclude_node) ==
    IF key \notin DOMAIN dir THEN dir
    ELSE IF exclude_node # "" THEN [dir EXCEPT ![key] = {exclude_node}]
    ELSE [dir EXCEPT ![key] = {}]

\* CacheNode.fetch_from_peers: no request is sent, the result is always None
fetch_from_peers(dir, key) == "None"

\* CacheNode.get on node n with cache c and directory dir
cache_node_get(n, c, dir, key) ==
    LET c1 == cache_get(Policy[n], c, key)
        i == KeyIndex(c1, key)
    IN  IF i = 0 \/ c1[i].state = "invalid"
        THEN IF fetch_from_peers(dir, key) # "None"
             THEN [cache |-> cache_put(Policy[n], c1, Capacity[n], key,
                                       NewEntry(key, fetch_from_peers(dir, key), "shared")),
                   directory |-> DictSet(dir, key,
                                   (IF key \in DOMAIN dir THEN dir[key] ELSE {}) \cup {n}),
                   status |-> "hit", value |-> fetch_from_peers(dir, key),
                   state |-> "shared", version |-> 0, created |-> TRUE]
             ELSE [cache |-> c1, directory |-> dir, status |-> "miss",
                   value |-> "None", state |-> "", version |-> 0, created |-> FALSE]
        ELSE [cache |-> c1, directory |-> dir, status |-> "hit",
              value |-> c1[i].value, state |-> c1[i].state, version |-> c1[i].version,
              created |-> FALSE]

\* CacheNode.put on node n
cache_node_put(n, c, dir, key, value) ==
    LET others == key \in DOMAIN dir /\ Cardinality(dir[key]) > 1
        dir1 == IF others THEN invalidate_peers(dir, key, n) ELSE dir
        state == IF others THEN "modified" ELSE "exclusive"
        c1 == cache_get(Policy[n], c, key)
        i == KeyIndex(c1, key)
        c2 == IF i # 0
              THEN [c1 EXCEPT ![i] = access([@ EXCEPT !.value = value,
                                                      !.state = state,
                                                      !.version = @ + 1])]
              ELSE cache_put(Policy[n], c1, Capacity[n], key, NewEntry(key, value, state))
    IN  [cache |-> c2, directory |-> DictSet(dir1, key, {n}), status |-> "success",
         state |-> state, version |-> IF i # 0 THEN c2[i].version ELSE 0,
         created |-> i = 0]

\* CacheNode.invalidate on node n
cache_node_invalidate(n, c, dir, key) ==
    LET c1 == cache_get(Policy[n], c, key)
        i == KeyIndex(c1, key)
    IN  IF i = 0
        THEN [cache |-> c1, directory |-> dir, status |-> "not_found"]
        ELSE [cache |-> [c1 EXCEPT ![i] = [write_back(@) EXCEPT !.state = "invalid"]],
              directory |-> IF key \notin DOMAIN dir THEN dir
                            ELSE IF dir[key] \ {n} = {} THEN DictDel(dir, key)
                            ELSE [dir EXCEPT ![key] = @ \ {n}],
              status |-> "invalidated"]

\* CacheNode.delete on node n
cache_node_delete(n, c, dir, key) ==
    LET dir1 == invalidate_peers(dir, key, "")
        i == KeyIndex(c, key)
    IN  IF i = 0
        THEN [cache |-> c, directory |-> dir1, status |-> "not_found"]
        ELSE [cache |-> RemoveAt(c, i),
              directory |-> IF key \in DOMAIN dir1 THEN DictDel(dir1, key) ELSE dir1,
              status |-> "deleted"]

\* CacheNode.get_cache_state: it calls self.cache.get for every key while it
\* iterates over self.cache.keys().  LFUCache.get accesses each entry in
\* place.  LRUCache.get also moves the entry to the end of the OrderedDict
\* under iteration: with one entry the loop ends, with more the first entry
\* is moved and accessed and the next step of the iteration raises
\* RuntimeError.
get_cache_state(policy, c) ==
    IF policy = "lfu"
    THEN [cache |-> [i \in 1 .. Len(c) |-> access(c[i])], raised |-> FALSE]
    ELSE IF c = <<>> THEN [cache |-> c, raised |-> FALSE]
    ELSE [cache |-> LRUCache_get(c, c[1].key), raised |-> Len(c) > 1]

\* the caps on access_count and version hold in the cache c
WithinCaps(c) ==
    \A i \in 1 .. Len(c) : c[i].access_count <= MaxAccess /\ c[i].version <= MaxVersion

\* ---- actions of the cache nodes ----

\* time passes when an entry is created: the next entry reads a later time
Tick(created) ==
    /\ created => cache_clock < MaxClock
    /\ cache_clock' = IF created THEN cache_clock + 1 ELSE cache_clock

CacheGet(n, key) ==
    LET r == cache_node_get(n, cache[n], cache_directory[n], key)
    IN  /\ WithinCaps(r.cache)
        /\ cache' = [cache EXCEPT ![n] = r.cache]
        /\ cache_directory' = [cache_directory EXCEPT ![n] = r.directory]
        /\ Tick(r.created)
        /\ UNCHANGED <<lm_vars, q_vars, r_vars, other_vars>>

\* get_cache_state, or process_message with the action 'state'
CacheState(n) ==
    LET r == get_cache_state(Policy[n], cache[n])
    IN  /\ cache[n] # <<>>
        /\ WithinCaps(r.cache)
        /\ cache' = [cache EXCEPT ![n] = r.cache]
        /\ UNCHANGED <<cache_directory, cache_clock>>
        /\ UNCHANGED <<lm_vars, q_vars, r_vars, other_vars>>

CachePut(n, key, value) ==
    LET r == cache_node_put(n, cache[n], cache_directory[n], key, value)
    IN  /\ WithinCaps(r.cache)
        /\ cache' = [cache EXCEPT ![n] = r.cache]
        /\ cache_directory' = [cache_directory EXCEPT ![n] = r.directory]
        /\ Tick(r.created)
        /\ UNCHANGED <<lm_vars, q_vars, r_vars, other_vars>>

CacheInvalidate(n, key) ==
    LET r == cache_node_invalidate(n, cache[n], cache_directory[n], key)
    IN  /\ WithinCaps(r.cache)
        /\ cache' = [cache EXCEPT ![n] = r.cache]
        /\ cache_directory' = [cache_directory EXCEPT ![n] = r.directory]
        /\ UNCHANGED cache_clock
        /\ UNCHANGED <<lm_vars, q_vars, r_vars, other_vars>>

CacheDelete(n, key) ==
    LET r == cache_node_delete(n, cache[n], cache_directory[n], key)
    IN  /\ cache' = [cache EXCEPT ![n] = r.cache]
        /\ cache_directory' = [cache_directory EXCEPT ![n] = r.directory]
        /\ UNCHANGED cache_clock
        /\ UNCHANGED <<lm_vars, q_vars, r_vars, other_vars>>

\* the keys each node is asked about by the clients of n1 and n2: n1 both
\* keys, n2 only k1
KeysOf(n) == IF n = "n1" THEN CacheKeys ELSE IF n = "n2" THEN {"k1"} ELSE {}

\* the keys and the value the clients of the FIFO node n3 use
FifoKeys == {"k1", "k2", "k3"}
FifoValues == {"a"}

InitCache ==
    /\ cache = [n \in CacheNodes |-> <<>>]
    /\ cache_directory = [n \in CacheNodes |-> << >>]
    /\ cache_clock = 0

NextCache ==
    \/ \E n \in CacheNodes : \E k \in KeysOf(n) : CacheGet(n, k)
    \/ \E n \in CacheNodes : \E k \in KeysOf(n) : \E v \in CacheValues : CachePut(n, k, v)
    \/ \E n \in CacheNodes : \E k \in KeysOf(n) : CacheInvalidate(n, k)
    \/ \E n \in CacheNodes : \E k \in KeysOf(n) : CacheDelete(n, k)
    \/ \E n \in CacheNodes : CacheState(n)

\* the node with the FIFO policy, read and written by its clients
NextCacheFifo ==
    \/ \E k \in FifoKeys : CacheGet("n3", k)
    \/ \E k \in FifoKeys, v \in FifoValues : CachePut("n3", k, v)
    \/ CacheState("n3")

(***************************************************************************)
(*                               Raft nodes                                *)
(***************************************************************************)
\* The election timer (last_heartbeat, election_timeout) is not modelled: an
\* election may start at any time.  None is "".

\* cluster_nodes, in the order of the list
cluster_nodes == <<"r1", "r2">>
RaftNodes == {cluster_nodes[i] : i \in 1 .. Len(cluster_nodes)}
cluster_size == Len(cluster_nodes)
Commands == {"x"}

\* the terms and log lengths the model lets build up, and the requests it
\* keeps in flight
MaxTerm == 2
MaxLog == 2
MaxInFlight == 1
\* the coroutines of one node the model lets be suspended at the same time
MaxPending == 1

\* the nodes of the list `nodes' (a RaftNode's cluster_nodes) other than n
OthersIn(nodes, n) == SelectSeq(nodes, LAMBDA m : m # n)

\* the other nodes, in the order of cluster_nodes
Others(n) == OthersIn(cluster_nodes, n)

\* RaftNode.__init__
NewRaftNode(n) ==
    [node_id |-> n, current_term |-> 0, voted_for |-> "", log |-> <<>>,
     commit_index |-> 0, last_applied |-> 0, state |-> "follower",
     next_index |-> << >>, match_index |-> << >>, leader_id |-> ""]

\* the entry at index i (from 0) of the log
LogAt(log, i) == log[i + 1]

\* self.log[-1].term if self.log else 0
LastLogTerm(log) == IF log = <<>> THEN 0 ELSE log[Len(log)].term

\* the request request_vote_rpc builds for target_node
request_vote_rpc(self, target_node) ==
    [type |-> "RequestVote", to |-> target_node, term |-> self.current_term,
     sender |-> self.node_id,
     last_log_index |-> Len(self.log) - 1, last_log_term |-> LastLogTerm(self.log),
     prev_log_index |-> 0, prev_log_term |-> 0, entries |-> <<>>, leader_commit |-> 0]

\* the prev_log_index of send_append_entries_rpc
prev_index_for(self, target_node) ==
    (IF target_node \in DOMAIN self.next_index
     THEN self.next_index[target_node] ELSE Len(self.log)) - 1

\* the request send_append_entries_rpc builds for target_node
append_entries_request(self, target_node, is_heartbeat) ==
    LET prev_log_index == prev_index_for(self, target_node)
    IN  [type |-> "AppendEntries", to |-> target_node, term |-> self.current_term,
         sender |-> self.node_id,
         last_log_index |-> 0, last_log_term |-> 0,
         prev_log_index |-> prev_log_index,
         prev_log_term |-> IF prev_log_index >= 0 /\ self.log # <<>>
                           THEN LogAt(self.log, prev_log_index).term ELSE 0,
         entries |-> IF ~is_heartbeat /\ Len(self.log) > prev_log_index + 1
                     THEN SubSeq(self.log, prev_log_index + 2, Len(self.log))
                     ELSE <<>>,
         leader_commit |-> self.commit_index]

\* send_append_entries_rpc reads self.log[prev_log_index] past the end of the
\* log (IndexError): next_index is ahead of a log that a handler cut back
request_raises(self, target_node) ==
    /\ self.log # <<>>
    /\ prev_index_for(self, target_node) >= Len(self.log)

\* what asyncio.gather(return_exceptions=True) holds for a call that raised:
\* an exception object, which is not a dict
RaisedResult == [term |-> 0, success |-> FALSE, match_index |-> 0]

\* the simulated response of send_append_entries_rpc
send_append_entries_rpc(self, target_node, is_heartbeat) ==
    IF request_raises(self, target_node) THEN RaisedResult
    ELSE LET req == append_entries_request(self, target_node, is_heartbeat)
         IN  [term |-> self.current_term, success |-> TRUE,
              match_index |-> req.prev_log_index + Len(req.entries)]

\* RaftNode.become_leader of a node whose cluster_nodes is `nodes' (the
\* heartbeats it sends are built by the action)
become_leader_in(nodes, self) ==
    LET peers == {nodes[i] : i \in 1 .. Len(nodes)} \ {self.node_id}
    IN  [self EXCEPT !.state = "leader",
                     !.leader_id = self.node_id,
                     !.next_index = [m \in peers |-> Len(self.log)],
                     !.match_index = [m \in peers |-> 0]]

\* RaftNode.become_leader
become_leader(self) == become_leader_in(cluster_nodes, self)

\* RaftNode.start_election up to its await: the node is a CANDIDATE of the
\* next term and votes for itself
election_begin(self) ==
    [self EXCEPT !.state = "candidate",
                 !.current_term = @ + 1,
                 !.voted_for = self.node_id]

\* RaftNode.start_election after its await, in a node whose cluster_nodes is
\* `nodes': every simulated response grants the vote; the state of the node
\* is not read again before the votes are counted
election_finish(nodes, self) ==
    LET votes_received == 1 + Len(OthersIn(nodes, self.node_id))
        votes_needed == (Len(nodes) \div 2) + 1
    IN  IF votes_received >= votes_needed
        THEN become_leader_in(nodes, self)
        ELSE [self EXCEPT !.state = "follower", !.voted_for = ""]

\* RaftNode.start_election of a node whose cluster_nodes is `nodes', when no
\* other callback runs at its await
start_election_in(nodes, self) == election_finish(nodes, election_begin(self))

\* RaftNode.start_election
start_election(self) == start_election_in(cluster_nodes, self)

\* a comparison that lets any candidate log pass
log_is_up_to_date_Any(log, last_log_index, last_log_term) == TRUE

\* handle_request_vote, log_is_up_to_date: the candidate's last term is
\* higher than ours, or equal with a last index at least ours
log_is_up_to_date(log, last_log_index, last_log_term) ==
    \/ last_log_term > LastLogTerm(log)
    \/ /\ last_log_term = LastLogTerm(log)
       /\ last_log_index >= Len(log) - 1

\* an update of the term that keeps the vote of the older term
update_term_KeepsVote(self, term) ==
    IF term > self.current_term
    THEN [self EXCEPT !.current_term = term, !.state = "follower"]
    ELSE self

\* "update term if necessary", the first step of handle_request_vote and of
\* handle_append_entries
update_term(self, term) ==
    IF term > self.current_term
    THEN [self EXCEPT !.current_term = term,
                      !.state = "follower",
                      !.voted_for = ""]
    ELSE self

\* RaftNode.handle_request_vote: the node afterwards and the response
handle_request_vote(self, request) ==
    LET s1 == update_term(self, request.term)
        vote_granted ==
            /\ request.term >= s1.current_term
            /\ s1.voted_for = "" \/ s1.voted_for = request.sender
            /\ log_is_up_to_date(s1.log, request.last_log_index, request.last_log_term)
    IN  [self |-> IF vote_granted THEN [s1 EXCEPT !.voted_for = request.sender] ELSE s1,
         term |-> s1.current_term, vote_granted |-> vote_granted]

\* a check that looks at the length of the log only
log_matches_AnyTerm(log, prev_log_index, prev_log_term) ==
    prev_log_index < 0 \/ prev_log_index < Len(log)

\* handle_append_entries, "check if log matches at prev_log_index"
log_matches(log, prev_log_index, prev_log_term) ==
    \/ prev_log_index < 0
    \/ /\ prev_log_index < Len(log)
       /\ LogAt(log, prev_log_index).term = prev_log_term

\* RaftNode.handle_append_entries: the node afterwards, the response, and
\* whether an apply_committed_entries task was created
handle_append_entries(self, request) ==
    LET s1 == update_term(self, request.term)
        current == request.term >= s1.current_term
        s2 == IF current
              THEN [s1 EXCEPT !.leader_id = request.sender, !.state = "follower"]
              ELSE s1
        success ==
            /\ current
            /\ log_matches(s2.log, request.prev_log_index, request.prev_log_term)
        insert_at == request.prev_log_index + 1
        log1 == IF success /\ request.entries # <<>>
                THEN SubSeq(s2.log, 1, insert_at) \o request.entries
                ELSE s2.log
        commits == success /\ request.leader_commit > s2.commit_index
        s3 == [s2 EXCEPT !.log = log1,
                         !.commit_index =
                             IF commits
                             THEN (IF request.leader_commit < Len(log1) - 1
                                   THEN request.leader_commit ELSE Len(log1) - 1)
                             ELSE @]
    IN  [self |-> s3, term |-> s3.current_term, success |-> success,
         match_index |-> IF success THEN Len(s3.log) - 1 ELSE -1,
         task |-> commits]

RECURSIVE apply_committed_entries(_)
\* RaftNode.apply_committed_entries; reading an entry past the end of the log
\* raises IndexError and ends the loop
apply_committed_entries(self) ==
    IF self.last_applied < self.commit_index
    THEN LET s1 == [self EXCEPT !.last_applied = @ + 1]
         IN  IF s1.last_applied >= Len(s1.log) THEN s1
             ELSE apply_committed_entries(s1)
    ELSE self

\* the first index (from 0) at which results holds a response equal to result
ResultIndex(results, result) ==
    SeqMin({i \in 1 .. Len(results) : results[i] = result}) - 1

RECURSIVE update_match_index_in(_, _, _, _)
\* the loop of replicate_command over the responses from position k on, in a
\* node whose cluster_nodes is `nodes': the match_index afterwards
update_match_index_in(nodes, match_index, results, k) ==
    IF k > Len(results) THEN match_index
    ELSE LET idx == ResultIndex(results, results[k])
             node_id == nodes[idx + 1]
         IN  update_match_index_in(nodes,
                 IF results[k].success /\ node_id \in DOMAIN match_index
                 THEN [match_index EXCEPT ![node_id] = results[k].match_index]
                 ELSE match_index,
                 results, k + 1)

\* the loop with the cluster of the model
update_match_index(match_index, results, k) ==
    update_match_index_in(cluster_nodes, match_index, results, k)

\* replicate_command up to its await: the entry is appended to the log
replicate_append(self, command) ==
    [self EXCEPT !.log = Append(@, [term |-> self.current_term, command |-> command,
                                    index |-> Len(self.log)])]

\* the responses asyncio.gather collects from send_append_entries_rpc, in the
\* order of the other nodes
replicate_results(nodes, self) ==
    LET others == OthersIn(nodes, self.node_id)
    IN  [i \in 1 .. Len(others) |-> send_append_entries_rpc(self, others[i], FALSE)]

\* apply_committed_entries reads an entry past the end of the log (IndexError)
apply_raises(self) ==
    self.last_applied < self.commit_index /\ self.commit_index >= Len(self.log)

\* replicate_command after its await, for the entry appended at `index': the
\* node afterwards, the value returned and whether IndexError ended the call;
\* state, term and log are not read again before commit_index is written
replicate_finish(nodes, self, index, results) ==
    LET successful == 1 + Cardinality({i \in 1 .. Len(results) : results[i].success})
        majority == (Len(nodes) \div 2) + 1
        s2 == [self EXCEPT !.match_index =
                               update_match_index_in(nodes, @, results, 1)]
        s3 == [s2 EXCEPT !.commit_index = index]
    IN  IF results = <<>> THEN [self |-> self, result |-> FALSE, raised |-> FALSE]
        ELSE IF successful >= majority
        THEN [self |-> apply_committed_entries(s3),
              result |-> ~apply_raises(s3), raised |-> apply_raises(s3)]
        ELSE [self |-> s2, result |-> FALSE, raised |-> FALSE]

\* RaftNode.replicate_command of a node whose cluster_nodes is `nodes', when
\* no other callback runs at its await
replicate_command_in(nodes, self, command) ==
    IF self.state # "leader" THEN [self |-> self, result |-> FALSE, raised |-> FALSE]
    ELSE LET s1 == replicate_append(self, command)
         IN  replicate_finish(nodes, s1, Len(self.log), replicate_results(nodes, s1))

\* RaftNode.replicate_command
replicate_command(self, command) ==
    replicate_command_in(cluster_nodes, self, command)

\* ---- actions of the Raft nodes ----

\* the requests a step puts in flight: any of those it built that fit
Sends(built, kept) ==
    /\ kept \subseteq built
    /\ Cardinality(rpc_sent \cup kept) <= MaxInFlight
    /\ rpc_sent' = rpc_sent \cup kept

\* a coroutine suspended at an await: the call, the await it waits at, and
\* its local variables (the index of the entry and the responses gathered)
Frame(op, at, index, results) ==
    [op |-> op, at |-> at, index |-> index, results |-> results]

\* node n starts a coroutine that suspends
Suspends(n, frame) ==
    /\ Cardinality(pending[n]) < MaxPending
    /\ pending' = [pending EXCEPT ![n] = @ \cup {frame}]

\* the coroutine of node n moves on from one await to the next, or ends
Resumes(n, old, new) ==
    /\ old \in pending[n]
    /\ pending' = [pending EXCEPT ![n] = (@ \ {old}) \cup new]

\* start_election runs up to asyncio.gather of the vote requests
StartElection_Raft(n) ==
    /\ raft[n].current_term < MaxTerm
    /\ raft' = [raft EXCEPT ![n] = election_begin(@)]
    /\ Suspends(n, Frame("start_election", "votes", 0, <<>>))
    /\ UNCHANGED <<apply_task, rpc_sent>>
    /\ UNCHANGED <<lm_vars, q_vars, c_vars, other_vars>>

\* the tasks of that gather run: each request_vote_rpc builds its request
\* from the state the node has by then
RequestVotes(n) ==
    LET votes == {request_vote_rpc(raft[n], m) : m \in RaftNodes \ {n}}
    IN  /\ Resumes(n, Frame("start_election", "votes", 0, <<>>),
                   {Frame("start_election", "count", 0, <<>>)})
        /\ \E kept \in SUBSET votes : Sends(votes, kept)
        /\ UNCHANGED <<raft, apply_task>>
        /\ UNCHANGED <<lm_vars, q_vars, c_vars, other_vars>>

\* start_election resumes: it counts the votes and, having won, runs
\* become_leader up to asyncio.gather of send_heartbeats
CountVotes(n) ==
    LET s1 == election_finish(cluster_nodes, raft[n])
    IN  /\ raft' = [raft EXCEPT ![n] = s1]
        /\ Resumes(n, Frame("start_election", "count", 0, <<>>),
                   IF s1.state = "leader"
                   THEN {Frame("send_heartbeats", "beats", 0, <<>>)} ELSE {})
        /\ UNCHANGED <<apply_task, rpc_sent>>
        /\ UNCHANGED <<lm_vars, q_vars, c_vars, other_vars>>

\* send_heartbeats of a leader runs up to its asyncio.gather
SendHeartbeats(n) ==
    /\ raft[n].state = "leader"
    /\ Suspends(n, Frame("send_heartbeats", "beats", 0, <<>>))
    /\ UNCHANGED <<raft, apply_task, rpc_sent>>
    /\ UNCHANGED <<lm_vars, q_vars, c_vars, other_vars>>

\* the tasks of that gather run: each send_append_entries_rpc builds its
\* heartbeat from the state the node has by then; nothing is done with the
\* responses
BuildHeartbeats(n) ==
    LET beats == {append_entries_request(raft[n], m, TRUE) :
                     m \in {x \in RaftNodes \ {n} : ~request_raises(raft[n], x)}}
    IN  /\ Resumes(n, Frame("send_heartbeats", "beats", 0, <<>>), {})
        /\ \E kept \in SUBSET beats : Sends(beats, kept)
        /\ UNCHANGED <<raft, apply_task>>
        /\ UNCHANGED <<lm_vars, q_vars, c_vars, other_vars>>

\* replicate_command of a leader runs up to asyncio.gather of the requests
ReplicateCommand(n, command) ==
    /\ raft[n].state = "leader"
    /\ Len(raft[n].log) < MaxLog
    /\ raft' = [raft EXCEPT ![n] = replicate_append(@, command)]
    /\ Suspends(n, Frame("replicate_command", "send", Len(raft[n].log), <<>>))
    /\ UNCHANGED <<apply_task, rpc_sent>>
    /\ UNCHANGED <<lm_vars, q_vars, c_vars, other_vars>>

\* the tasks of that gather run: each send_append_entries_rpc builds its
\* request and its simulated response from the state the node has by then
BuildAppendEntries(n) ==
    LET built == {append_entries_request(raft[n], m, FALSE) :
                     m \in {x \in RaftNodes \ {n} : ~request_raises(raft[n], x)}}
    IN  \E f \in pending[n] :
            /\ f.op = "replicate_command" /\ f.at = "send"
            /\ Resumes(n, f, {Frame("replicate_command", "count", f.index,
                                    replicate_results(cluster_nodes, raft[n]))})
            /\ \E kept \in SUBSET built : Sends(built, kept)
            /\ UNCHANGED <<raft, apply_task>>
            /\ UNCHANGED <<lm_vars, q_vars, c_vars, other_vars>>

\* replicate_command resumes: it counts the responses, writes match_index and
\* commit_index and applies
CountAcks(n) ==
    \E f \in pending[n] :
        /\ f.op = "replicate_command" /\ f.at = "count"
        /\ raft' = [raft EXCEPT ![n] =
                        replicate_finish(cluster_nodes, @, f.index, f.results).self]
        /\ Resumes(n, f, {})
        /\ UNCHANGED <<apply_task, rpc_sent>>
        /\ UNCHANGED <<lm_vars, q_vars, c_vars, other_vars>>

\* a request in flight reaches its target; it stays in flight, so it may be
\* delivered again
DeliverRequestVote(request) ==
    /\ request.type = "RequestVote"
    /\ raft' = [raft EXCEPT ![request.to] = handle_request_vote(@, request).self]
    /\ UNCHANGED <<apply_task, rpc_sent, pending>>
    /\ UNCHANGED <<lm_vars, q_vars, c_vars, other_vars>>

DeliverAppendEntries(request) ==
    LET r == handle_append_entries(raft[request.to], request)
    IN  /\ request.type = "AppendEntries"
        /\ raft' = [raft EXCEPT ![request.to] = r.self]
        /\ apply_task' = [apply_task EXCEPT ![request.to] = @ \/ r.task]
        /\ UNCHANGED <<rpc_sent, pending>>
        /\ UNCHANGED <<lm_vars, q_vars, c_vars, other_vars>>

\* the task created by handle_append_entries runs
RunApplyTask(n) ==
    /\ apply_task[n]
    /\ raft' = [raft EXCEPT ![n] = apply_committed_entries(@)]
    /\ apply_task' = [apply_task EXCEPT ![n] = FALSE]
    /\ UNCHANGED <<rpc_sent, pending>>
    /\ UNCHANGED <<lm_vars, q_vars, c_vars, other_vars>>

\* a request in flight is lost
LoseRequest(request) ==
    /\ rpc_sent' = rpc_sent \ {request}
    /\ UNCHANGED <<raft, apply_task, pending>>
    /\ UNCHANGED <<lm_vars, q_vars, c_vars, other_vars>>

InitRaft ==
    /\ raft = [n \in RaftNodes |-> NewRaftNode(n)]
    /\ apply_task = [n \in RaftNodes |-> FALSE]
    /\ rpc_sent = {}
    /\ pending = [n \in RaftNodes |-> {}]

NextRaft ==
    \/ \E n \in RaftNodes : StartElection_Raft(n)
    \/ \E n \in RaftNodes : RequestVotes(n)
    \/ \E n \in RaftNodes : CountVotes(n)
    \/ \E n \in RaftNodes : SendHeartbeats(n)
    \/ \E n \in RaftNodes : BuildHeartbeats(n)
    \/ \E n \in RaftNodes, c \in Commands : ReplicateCommand(n, c)
    \/ \E n \in RaftNodes : BuildAppendEntries(n)
    \/ \E n \in RaftNodes : CountAcks(n)
    \/ \E m \in rpc_sent : DeliverRequestVote(m)
    \/ \E m \in rpc_sent : DeliverAppendEntries(m)
    \/ \E n \in RaftNodes : RunApplyTask(n)
    \/ \E m \in rpc_sent : LoseRequest(m)

(***************************************************************************)
(*                     A Raft node that is alone in its cluster            *)
(***************************************************************************)

\* RaftNode("s1", ["s1"]): cluster_size is 1.  With no other node there is no
\* request to gather, so start_election and replicate_command never suspend
\* and each call is one step.
solo_cluster == <<"s1">>
MaxSoloTerm == 4
MaxSoloLog == 4

SoloStartElection ==
    /\ solo.current_term < MaxSoloTerm
    /\ solo' = start_election_in(solo_cluster, solo)
    /\ solo_call' = [op |-> "start_election", result |-> solo'.state = "leader"]
    /\ UNCHANGED <<lm_vars, q_vars, c_vars, r_vars, fd_vars, mp_vars, ch_vars>>

SoloReplicateCommand(command) ==
    /\ Len(solo.log) < MaxSoloLog
    /\ LET r == replicate_command_in(solo_cluster, solo, command)
       IN  /\ solo' = r.self
           /\ solo_call' = [op |-> "replicate_command", result |-> r.result]
    /\ UNCHANGED <<lm_vars, q_vars, c_vars, r_vars, fd_vars, mp_vars, ch_vars>>

InitSolo ==
    /\ solo = NewRaftNode("s1")
    /\ solo_call = [op |-> "none", result |-> FALSE]

NextSolo ==
    \/ SoloStartElection
    \/ \E c \in Commands : SoloReplicateCommand(c)

(***************************************************************************)
(*                            Failure detector                             *)
(***************************************************************************)

Peers == {"p1", "p2"}
MaxFdTime == 2
phi_threshold == 8
max_sample_size == 200

\* The values detector.phi() can have once it uses the normal distribution
\* of lines 89-105: below the threshold, from the threshold to twice the
\* threshold, and above that.  The value depends on the wall clock at the
\* moment of the read, so each read draws one of these.
PhiLevels == {0, phi_threshold, 2 * phi_threshold, 2 * phi_threshold + 1}

\* PhiAccrualFailureDetector.__init__: an empty deque of intervals
NewDetector(now) == [intervals |-> <<>>, last_heartbeat |-> now]

\* deque(maxlen = max_sample_size).append
append_interval(intervals, interval) ==
    IF Len(intervals) < max_sample_size
    THEN Append(intervals, interval)
    ELSE Append(Tail(intervals), interval)

\* PhiAccrualFailureDetector.heartbeat: an interval is stored only when the
\* deque already holds one
heartbeat(detector, now) ==
    [intervals |-> IF Len(detector.intervals) > 0
                   THEN append_interval(detector.intervals,
                                        now - detector.last_heartbeat)
                   ELSE detector.intervals,
     last_heartbeat |-> now]

\* PhiAccrualFailureDetector.phi: 0.0 with fewer than two intervals, else the
\* value of the distribution formula, which is `level'
phi(detector, level) ==
    IF Len(detector.intervals) < 2 THEN 0 ELSE level

\* PhiAccrualFailureDetector.is_available (its threshold is phi_threshold)
is_available(detector, level) == phi(detector, level) < phi_threshold

\* FailureDetector.register_node
register_node(nodes, status, p, now) ==
    IF p \notin DOMAIN nodes
    THEN [nodes |-> DictSet(nodes, p, NewDetector(now)),
          node_status |-> DictSet(status, p, "unknown")]
    ELSE [nodes |-> nodes, node_status |-> status]

\* FailureDetector.unregister_node
unregister_node(nodes, status, p) ==
    IF p \in DOMAIN nodes
    THEN [nodes |-> DictDel(nodes, p), node_status |-> DictDel(status, p)]
    ELSE [nodes |-> nodes, node_status |-> status]

\* FailureDetector.record_heartbeat; `level' is the phi read by is_available
record_heartbeat(nodes, status, p, now, level) ==
    LET reg      == register_node(nodes, status, p, now)
        detector == heartbeat(reg.nodes[p], now)
        old      == reg.node_status[p]
        avail    == is_available(detector, level)
    IN  [nodes       |-> DictSet(reg.nodes, p, detector),
         node_status |-> IF avail THEN DictSet(reg.node_status, p, "alive")
                         ELSE reg.node_status,
         fired       |-> IF avail /\ old \in {"suspected", "dead"}
                         THEN {<<"on_node_recovered", p>>} ELSE {}]

\* one iteration of the for loop of FailureDetector.monitor_nodes: `phi_value'
\* is the value read at line 207, `available' the result of line 210
monitor_node(p, old_status, phi_value, available) ==
    IF ~available
    THEN IF old_status = "alive"
         THEN [status |-> "suspected", fired |-> {<<"on_node_suspected", p>>}]
         ELSE IF old_status = "suspected" /\ phi_value > phi_threshold * 2
              THEN [status |-> "dead", fired |-> {<<"on_node_dead", p>>}]
              ELSE [status |-> old_status, fired |-> {}]
    ELSE [status |-> old_status, fired |-> {}]

\* one sweep of FailureDetector.monitor_nodes over all registered nodes;
\* lv[p] holds the two phi levels read for p (lines 207 and 210)
monitor_nodes(nodes, status, lv) ==
    LET step(p) == monitor_node(p, status[p], phi(nodes[p], lv[p][1]),
                                is_available(nodes[p], lv[p][2]))
    IN  [node_status |-> [p \in DOMAIN nodes |-> step(p).status],
         fired       |-> UNION {step(p).fired : p \in DOMAIN nodes}]

RegisterNode(p) ==
    /\ p \notin DOMAIN fd_nodes
    /\ LET r == register_node(fd_nodes, node_status, p, fd_now)
       IN  /\ fd_nodes' = r.nodes
           /\ node_status' = r.node_status
    /\ fd_call' = [op |-> "register_node", fired |-> {}]
    /\ UNCHANGED fd_now
    /\ UNCHANGED <<lm_vars, q_vars, c_vars, r_vars, mp_vars, ch_vars, solo_vars>>

UnregisterNode(p) ==
    /\ p \in DOMAIN fd_nodes
    /\ LET r == unregister_node(fd_nodes, node_status, p)
       IN  /\ fd_nodes' = r.nodes
           /\ node_status' = r.node_status
    /\ fd_call' = [op |-> "unregister_node", fired |-> {}]
    /\ UNCHANGED fd_now
    /\ UNCHANGED <<lm_vars, q_vars, c_vars, r_vars, mp_vars, ch_vars, solo_vars>>

RecordHeartbeat(p, level) ==
    /\ LET r == record_heartbeat(fd_nodes, node_status, p, fd_now, level)
       IN  /\ fd_nodes' = r.nodes
           /\ node_status' = r.node_status
           /\ fd_call' = [op |-> "record_heartbeat", fired |-> r.fired]
    /\ UNCHANGED fd_now
    /\ UNCHANGED <<lm_vars, q_vars, c_vars, r_vars, mp_vars, ch_vars, solo_vars>>

MonitorSweep(lv) ==
    /\ LET r == monitor_nodes(fd_nodes, node_status, lv)
       IN  /\ node_status' = r.node_status
           /\ fd_call' = [op |-> "monitor_nodes", fired |-> r.fired]
    /\ UNCHANGED <<fd_nodes, fd_now>>
    /\ UNCHANGED <<lm_vars, q_vars, c_vars, r_vars, mp_vars, ch_vars, solo_vars>>

\* time.time() moves on
FdTick ==
    /\ fd_now < MaxFdTime
    /\ fd_now' = fd_now + 1
    /\ UNCHANGED <<fd_nodes, node_status, fd_call>>
    /\ UNCHANGED <<lm_vars, q_vars, c_vars, r_vars, mp_vars, ch_vars, solo_vars>>

InitDetector ==
    /\ fd_nodes = << >>
    /\ node_status = << >>
    /\ fd_now = 0
    /\ fd_call = [op |-> "none", fired |-> {}]

NextDetector ==
    \/ \E p \in Peers : RegisterNode(p)
    \/ \E p \in Peers : UnregisterNode(p)
    \/ \E p \in Peers, level \in PhiLevels : RecordHeartbeat(p, level)
    \/ \E lv \in [Peers -> PhiLevels \X PhiLevels] : MonitorSweep(lv)
    \/ FdTick

(***************************************************************************)
(*                             Message passer                              *)
(***************************************************************************)

MessageIds == {"m1", "m2"}
MessageTypes == {"lock", "queue"}
MaxReceives == 4

\* the Message objects a peer can deliver: message_id, message_type and
\* requires_ack are the fields receive_message reads
PassedMessages ==
    [message_id : MessageIds, message_type : MessageTypes, requires_ack : BOOLEAN]

\* MessagePasser.receive_message: the new received_messages and
\* messages_received, whether send_ack was called and whether the handler
\* of the message type was called
receive_message_NoDuplicateCheck(received, count, handlers, message) ==
    [received_messages |-> DictSet(received, message.message_id, message),
     messages_received |-> count + 1,
     acked             |-> message.requires_ack,
     handled           |-> message.message_type \in handlers]

receive_message(received, count, handlers, message) ==
    IF message.message_id \in DOMAIN received
    THEN [received_messages |-> received,
          messages_received |-> count,
          acked             |-> message.requires_ack,
          handled           |-> FALSE]
    ELSE [received_messages |-> DictSet(received, message.message_id, message),
          messages_received |-> count + 1,
          acked             |-> message.requires_ack,
          handled           |-> message.message_type \in handlers]

RegisterHandler(message_type) ==
    /\ message_type \notin message_handlers
    /\ message_handlers' = message_handlers \cup {message_type}
    /\ UNCHANGED <<received_messages, messages_received, mp_handled, mp_acked, mp_calls>>
    /\ UNCHANGED <<lm_vars, q_vars, c_vars, r_vars, fd_vars, ch_vars, solo_vars>>

ReceiveMessage(message) ==
    /\ mp_calls < MaxReceives
    /\ LET r == receive_message(received_messages, messages_received,
                                message_handlers, message)
           id == message.message_id
       IN  /\ received_messages' = r.received_messages
           /\ messages_received' = r.messages_received
           /\ mp_handled' = IF r.handled
                            THEN [mp_handled EXCEPT ![id] = @ + 1] ELSE mp_handled
           /\ mp_acked' = IF r.acked
                          THEN [mp_acked EXCEPT ![id] = @ + 1] ELSE mp_acked
    /\ mp_calls' = mp_calls + 1
    /\ UNCHANGED message_handlers
    /\ UNCHANGED <<lm_vars, q_vars, c_vars, r_vars, fd_vars, ch_vars, solo_vars>>

InitPasser ==
    /\ received_messages = << >>
    /\ messages_received = 0
    /\ message_handlers = {}
    /\ mp_handled = [id \in MessageIds |-> 0]
    /\ mp_acked = [id \in MessageIds |-> 0]
    /\ mp_calls = 0

NextPasser ==
    \/ \E t \in MessageTypes : RegisterHandler(t)
    \/ \E m \in PassedMessages : ReceiveMessage(m)

(***************************************************************************)
(*                      Consistent hash of the queue node                  *)
(***************************************************************************)

RingNodes == {"node1", "node2", "node3", "node4"}
RingKeys == {"key1", "key2", "key3", "test_key"}
\* ConsistentHash.num_virtual_nodes, a parameter of the constructor
NumVirtualNodes == 2

\* f"{node_id}:{i}"
virtual_key(node_id, i) ==
    CASE node_id = "node1" -> <<"node1:0", "node1:1", "node1:2", "node1:3">>[i + 1]
      [] node_id = "node2" -> <<"node2:0", "node2:1", "node2:2", "node2:3">>[i + 1]
      [] node_id = "node3" -> <<"node3:0", "node3:1", "node3:2", "node3:3">>[i + 1]
      [] node_id = "node4" -> <<"node4:0", "node4:1", "node4:2", "node4:3">>[i + 1]

\* ConsistentHash._hash: int(hashlib.md5(key.encode()).hexdigest(), 16).
\* The ring only compares hash values, so each string of the model carries
\* the position of its MD5 value among the MD5 values of all of them.
hash(key) ==
    CASE key = "node4:3" -> 1   [] key = "node3:2" -> 2   [] key = "node4:0" -> 3
      [] key = "node2:1" -> 4   [] key = "key3" -> 5      [] key = "node1:1" -> 6
      [] key = "node1:0" -> 7   [] key = "node2:3" -> 8   [] key = "key2" -> 9
      [] key = "node4:1" -> 10  [] key = "test_key" -> 11 [] key = "node3:0" -> 12
      [] key = "node3:1" -> 13  [] key = "node3:3" -> 14  [] key = "node2:0" -> 15
      [] key = "key1" -> 16     [] key = "node2:2" -> 17  [] key = "node1:3" -> 18
      [] key = "node4:2" -> 19  [] key = "node1:2" -> 20

\* sorted(self.ring.keys())
RECURSIVE sorted(_)
sorted(S) ==
    IF S = {} THEN << >>
    ELSE LET m == CHOOSE x \in S : \A y \in S : x <= y
         IN  <<m>> \o sorted(S \ {m})

\* the hash values of the virtual nodes of node_id
virtual_hashes(node_id) ==
    {hash(virtual_key(node_id, i)) : i \in 0 .. NumVirtualNodes - 1}

\* ConsistentHash.add_node
add_node_Unsorted(ring_map, keys, nodes, node_id) ==
    IF node_id \in nodes
    THEN [ring |-> ring_map, sorted_keys |-> keys, nodes |-> nodes]
    ELSE LET r == [h \in DOMAIN ring_map \cup virtual_hashes(node_id) |->
                      IF h \in virtual_hashes(node_id) THEN node_id ELSE ring_map[h]]
         IN  [ring |-> r,
              sorted_keys |-> keys \o sorted(virtual_hashes(node_id)),
              nodes |-> nodes \cup {node_id}]

add_node(ring_map, keys, nodes, node_id) ==
    IF node_id \in nodes
    THEN [ring |-> ring_map, sorted_keys |-> keys, nodes |-> nodes]
    ELSE LET r == [h \in DOMAIN ring_map \cup virtual_hashes(node_id) |->
                      IF h \in virtual_hashes(node_id) THEN node_id ELSE ring_map[h]]
         IN  [ring |-> r, sorted_keys |-> sorted(DOMAIN r),
              nodes |-> nodes \cup {node_id}]

\* ConsistentHash.remove_node
remove_node(ring_map, keys, nodes, node_id) ==
    IF node_id \notin nodes
    THEN [ring |-> ring_map, sorted_keys |-> keys, nodes |-> nodes]
    ELSE LET r == [h \in DOMAIN ring_map \ virtual_hashes(node_id) |-> ring_map[h]]
         IN  [ring |-> r, sorted_keys |-> sorted(DOMAIN r),
              nodes |-> nodes \ {node_id}]

\* ConsistentHash.get_node ("None" is None)
get_node(ring_map, keys, key) ==
    IF DOMAIN ring_map = {} THEN "None"
    ELSE LET hash_value == hash(key)
             found == {i \in 1 .. Len(keys) : keys[i] >= hash_value}
         IN  IF found # {}
             THEN ring_map[keys[CHOOSE i \in found : \A j \in found : i <= j]]
             ELSE ring_map[keys[1]]

AddNode(node_id) ==
    /\ LET r == add_node(ring, sorted_keys, ch_nodes, node_id)
       IN  /\ ring' = r.ring
           /\ sorted_keys' = r.sorted_keys
           /\ ch_nodes' = r.nodes
    /\ ch_call' = [op |-> "add_node", arg |-> node_id, result |-> "None"]
    /\ UNCHANGED <<lm_vars, q_vars, c_vars, r_vars, fd_vars, mp_vars, solo_vars>>

RemoveNode(node_id) ==
    /\ LET r == remove_node(ring, sorted_keys, ch_nodes, node_id)
       IN  /\ ring' = r.ring
           /\ sorted_keys' = r.sorted_keys
           /\ ch_nodes' = r.nodes
    /\ ch_call' = [op |-> "remove_node", arg |-> node_id, result |-> "None"]
    /\ UNCHANGED <<lm_vars, q_vars, c_vars, r_vars, fd_vars, mp_vars, solo_vars>>

GetNode(key) ==
    /\ ch_call' = [op |-> "get_node", arg |-> key,
                   result |-> get_node(ring, sorted_keys, key)]
    /\ UNCHANGED <<ring, sorted_keys, ch_nodes>>
    /\ UNCHANGED <<lm_vars, q_vars, c_vars, r_vars, fd_vars, mp_vars, solo_vars>>

InitHash ==
    /\ ring = << >>
    /\ sorted_keys = << >>
    /\ ch_nodes = {}
    /\ ch_call = [op |-> "none", arg |-> "", result |-> "None"]

NextHash ==
    \/ \E n \in RingNodes : AddNode(n)
    \/ \E n \in RingNodes : RemoveNode(n)
    \/ \E k \in RingKeys : GetNode(k)

(***************************************************************************)
(*                             Specifications                              *)
(***************************************************************************)

Init == InitLock /\ InitQueue /\ InitCache /\ InitRaft /\ InitDetector /\ InitPasser
                 /\ InitHash /\ InitSolo

SpecLock == Init /\ [][NextLock]_vars

SpecQueue == Init /\ [][NextQueue]_vars

SpecCache == Init /\ [][NextCache]_vars

SpecCacheFifo == Init /\ [][NextCacheFifo]_vars

SpecRaft == Init /\ [][NextRaft]_vars

SpecDetector == Init /\ [][NextDetector]_vars

SpecPasser == Init /\ [][NextPasser]_vars

SpecHash == Init /\ [][NextHash]_vars

SpecSolo == Init /\ [][NextSolo]_vars

\* consumers keep polling and producers keep sending; nothing else runs in
\* a QueueNode (it starts no background task)
SpecQueueLive ==
    /\ Init
    /\ [][NextQueue]_vars
    /\ WF_vars(\E i \in DequeueInputs : Dequeue(i[1], i[2]))
    /\ WF_vars(\E q \in QueueNames, p \in Priorities : Enqueue(q, p))

(***************************************************************************)
(*                  Further properties of the lock manager                 *)
(***************************************************************************)

\* C17: on the leader, acquire_lock on an existing lock by a requester that
\* does not hold it replies acquired exactly when the lock has no holders or
\* the requested mode and the lock's mode are both SHARED.
C17_AcquiredIffCompatible ==
    node_state = "leader" =>
        \A l \in DOMAIN locks :
            \A r \in Requesters \ locks[l].holders, t \in LockTypes :
                acquire_lock(l, r, t).status = "acquired" <=>
                    \/ locks[l].holders = {}
                    \/ t = "shared" /\ locks[l].lock_type = "shared"

RECURSIVE SharedPrefix(_)
\* the consecutive SHARED requests at the front of a waiting queue
SharedPrefix(queue) ==
    IF queue = <<>> \/ Head(queue).lock_type # "shared" THEN <<>>
    ELSE <<Head(queue)>> \o SharedPrefix(Tail(queue))

\* C18: when release_lock on the leader empties the holder set of a lock
\* whose waiting queue starts with a SHARED request, every consecutive SHARED
\* request at the front of the queue holds the lock afterwards.
C18_SharedWaitersGrantedTogether ==
    node_state = "leader" =>
        \A l \in DOMAIN locks :
            \A h \in locks[l].holders :
                LET r == release_lock(locks, wait_for_graph, l, h)
                    granted == SharedPrefix(locks[l].waiting_queue)
                IN  locks[l].holders = {h} /\ granted # <<>> =>
                      /\ l \in DOMAIN r.locks
                      /\ \A i \in 1 .. Len(granted) :
                             granted[i].requester_id \in r.locks[l].holders

\* C19: after a sweep of check_lock_timeouts on the leader, whatever set of
\* locks had expired, no requester that held an expired lock when the sweep
\* started holds it afterwards.
C19_ExpiredHoldersGone ==
    node_state = "leader" =>
        \A expired \in SUBSET (DOMAIN locks) :
            LET r == release_expired(locks, wait_for_graph, expired, locks)
            IN  \A l \in expired :
                    \A h \in locks[l].holders :
                        l \in DOMAIN r.locks => h \notin r.locks[l].holders

\* the lock table, the waiting queues in it and the wait-for graph are what
\* they were before the call that replied r
LockStateKept(r) == r.locks = locks /\ r.wait_for_graph = wait_for_graph

\* C20, as the specification words it: on a node that is not the leader,
\* acquire_lock and release_lock reply status error with the message
\* "not leader" and the node's leader_id, and change nothing.
C20_NotLeaderMessageAsSpecified ==
    node_state # "leader" =>
        /\ \A i \in AcquireInputs :
               LET r == acquire_lock(i[1], i[2], i[3])
               IN  /\ r.status = "error" /\ r.message = "not leader"
                   /\ r.leader_id = leader_id
                   /\ LockStateKept(r)
        /\ \A l \in LockIds, h \in Requesters :
               LET r == release_lock_call(l, h)
               IN  /\ r.status = "error" /\ r.message = "not leader"
                   /\ r.leader_id = leader_id
                   /\ LockStateKept(r)

\* C20, amended: on a node that is not the leader, acquire_lock and
\* release_lock reply status error with the message "Not the leader" and the
\* node's leader_id (None when it knows no leader), and leave the lock table,
\* the waiting queues and the wait-for graph unchanged.
C20_NotLeaderRefused ==
    node_state # "leader" =>
        /\ \A i \in AcquireInputs :
               LET r == acquire_lock(i[1], i[2], i[3])
               IN  /\ r.status = "error" /\ r.message = "Not the leader"
                   /\ r.leader_id = leader_id
                   /\ LockStateKept(r)
        /\ \A l \in LockIds, h \in Requesters :
               LET r == release_lock_call(l, h)
               IN  /\ r.status = "error" /\ r.message = "Not the leader"
                   /\ r.leader_id = leader_id
                   /\ LockStateKept(r)

\* C20 witness: the node has stepped down on the heartbeat of lm2 while lock
\* A is held with a request queued, and an acquire_lock has been refused.
C20_Witness ==
    /\ node_state = "follower" /\ leader_id = "lm2"
    /\ lm_reply.op = "acquire" /\ lm_reply.status = "error"
    /\ lm_reply.message = "Not the leader"
    /\ "A" \in DOMAIN locks /\ locks["A"].waiting_queue # <<>>
    /\ wait_for_graph # << >>

\* C21: on the leader, when lock x does not exist, acquire_lock(x, r, mode)
\* followed at once by release_lock(x, r) leaves the lock table and the
\* wait-for graph exactly as they were before the acquire.
C21_AcquireReleaseNoTrace ==
    node_state = "leader" =>
        \A x \in LockIds \ DOMAIN locks :
            \A r \in Requesters, mode \in LockTypes :
                LET a == acquire_lock(x, r, mode)
                    b == release_lock(a.locks, a.wait_for_graph, x, r)
                IN  /\ a.status = "acquired"
                    /\ b.status = "released"
                    /\ b.locks = locks
                    /\ b.wait_for_graph = wait_for_graph

\* the edges of the wait-for graph
GraphEdges ==
    {e \in Requesters \X Requesters :
        e[1] \in DOMAIN wait_for_graph /\ e[2] \in wait_for_graph[e[1]]}

\* the pairs <<r, h>> where r is in the waiting queue of a lock held by h
WaitsOnHolder ==
    {e \in Requesters \X Requesters :
        \E l \in DOMAIN locks :
            /\ e[2] \in locks[l].holders
            /\ \E i \in 1 .. Len(locks[l].waiting_queue) :
                   locks[l].waiting_queue[i].requester_id = e[1]}

\* C30: the wait-for graph has the edge r -> h exactly when r is in the
\* waiting queue of some lock that h holds.  Checked where the claim spells it
\* out, right after a successful release: every requester that holds no
\* lock and waits for a lock has an edge to each holder of that lock (the
\* waiters left behind by a hand-over point to the new holder, and a
\* requester that released one lock keeps its edges for the lock it still
\* waits for).
C30_GraphMatchesWaitingQueues ==
    lm_reply.op = "release" /\ lm_reply.status = "released" =>
        \A e \in WaitsOnHolder :
            (\A l \in DOMAIN locks : e[1] \notin locks[l].holders) => e \in GraphEdges

\* C31: after every call on the lock manager each lock of the lock table has
\* at least one holder: a lock left without holders was deleted when nobody
\* waited for it and handed to a waiter otherwise.
C31_EveryLockHeld ==
    /\ \A l \in DOMAIN locks : locks[l].holders # {}
    /\ \A l \in DOMAIN locks :
           \A h \in locks[l].holders :
               LET r == release_lock(locks, wait_for_graph, l, h)
                   q == locks[l].waiting_queue
               IN  /\ r.status = "released"
                   /\ locks[l].holders = {h} /\ q = <<>> => l \notin DOMAIN r.locks
                   /\ locks[l].holders = {h} /\ q # <<>> =>
                          /\ l \in DOMAIN r.locks
                          /\ r.locks[l].holders = {q[1].requester_id}

\* lock A went from c1 to the waiter c2 while another requester, which
\* queued when c1 held the lock, still waits
C31_Witness ==
    /\ lm_reply.op = "release" /\ lm_reply.status = "released"
    /\ "A" \in DOMAIN locks /\ "B" \notin DOMAIN locks
    /\ locks["A"].holders = {"c2"}
    /\ locks["A"].waiting_queue # <<>>
    /\ \E w \in DOMAIN wait_for_graph : wait_for_graph[w] = {"c1"}

\* C36: no reachable state holds a cycle of requesters in which each one is
\* in the waiting queue of a lock held by the next.  The cycles looked for
\* are those in which every requester waits for a lock it does not hold.
C36_NoWaitCycle ==
    LET waits(a, b) ==
            \E l \in DOMAIN locks :
                /\ b \in locks[l].holders
                /\ a \notin locks[l].holders
                /\ \E i \in 1 .. Len(locks[l].waiting_queue) :
                       locks[l].waiting_queue[i].requester_id = a
    IN  /\ \A a, b \in Requesters : ~(waits(a, b) /\ waits(b, a))
        /\ \A a, b, c \in Requesters :
               ~(waits(a, b) /\ waits(b, c) /\ waits(c, a))

\* C38: a new request is never granted ahead of earlier waiters: acquire_lock
\* does not reply "acquired" for a lock whose waiting queue is non-empty.
C38_NoGrantAheadOfWaiters ==
    \A l \in DOMAIN locks : \A c \in Requesters : \A t \in LockTypes :
        /\ locks[l].waiting_queue # << >>
        /\ c \notin locks[l].holders
        /\ \A i \in 1 .. Len(locks[l].waiting_queue) :
               locks[l].waiting_queue[i].requester_id # c
        => acquire_lock(l, c, t).status # "acquired"

\* C39: in every reachable state a requester appears at most once in a given
\* lock's waiting queue and is never both a holder and a waiter of that lock.
C39_WaiterOnceAndNotHolder ==
    \A l \in DOMAIN locks :
        LET q == locks[l].waiting_queue
        IN  /\ \A i, j \in 1 .. Len(q) :
                   q[i].requester_id = q[j].requester_id => i = j
            /\ \A i \in 1 .. Len(q) : q[i].requester_id \notin locks[l].holders

(***************************************************************************)
(*                      Properties of the queue node                       *)
(***************************************************************************)

\* the entries of seq whose message has priority p, in order
OfPriority(seq, p) == SelectSeq(seq, LAMBDA x : messages[x].priority = p)

SeqRange(seq) == {seq[i] : i \in 1 .. Len(seq)}

\* C4: every queue is ordered by priority descending and, among equal
\* priorities, by insertion order; a dequeue returns a message that no PENDING
\* entry of the queue outranks and that is the earliest inserted of its
\* priority.
C4_PriorityThenFifo ==
    \A q \in DOMAIN queues :
        /\ \A i, j \in 1 .. Len(queues[q]) :
               i < j => messages[queues[q][i]].priority >= messages[queues[q][j]].priority
        /\ Len(queues[q]) = Len(arrival[q])
        /\ \A p \in Priorities : OfPriority(queues[q], p) = OfPriority(arrival[q], p)
        /\ \A c \in Consumers :
               LET r == dequeue(queues, messages, consumers, arrival, q, c)
               IN  r.status = "success" =>
                     /\ \A x \in SeqRange(queues[q]) :
                            messages[x].status = "pending" =>
                                messages[x].priority <= messages[r.message_id].priority
                     /\ r.message_id =
                            Head(OfPriority(arrival[q], messages[r.message_id].priority))
                     /\ r.queues[q] = Tail(queues[q])

\* C4 witness: message 0 (low priority) was enqueued before message 1 (high
\* priority) on q1, and a dequeue has returned message 1 while message 0
\* still waits.
C4_Witness ==
    /\ DOMAIN queues = {"q1"}
    /\ DOMAIN messages = {0, 1}
    /\ messages[0].priority < messages[1].priority
    /\ messages[1].status = "processing" /\ messages[1].attempts = 1
    /\ messages[0].status = "pending" /\ messages[0].attempts = 0
    /\ queues["q1"] = <<0>>

\* C7: attempts never exceeds max_attempts, and a FAILED message has attempts
\* equal to max_attempts.
C7_AttemptsBounded ==
    \A m \in DOMAIN messages :
        /\ messages[m].attempts <= messages[m].max_attempts
        /\ messages[m].status = "failed" =>
               messages[m].attempts = messages[m].max_attempts

\* C8: a DELIVERED message is in no queue.
C8_DeliveredInNoQueue ==
    \A m \in DOMAIN messages :
        messages[m].status = "delivered" =>
            \A q \in DOMAIN queues : m \notin SeqRange(queues[q])

\* C9: a message in PROCESSING does not stay in PROCESSING forever.
C9_ProcessingEnds ==
    \A m \in MsgIds :
        (m \in DOMAIN messages /\ messages[m].status = "processing")
            ~> (m \in DOMAIN messages /\ messages[m].status # "processing")

\* C10: no dequeue, on any queue, returns a message whose status is FAILED.
C10_FailedNeverDequeued ==
    \A m \in DOMAIN messages :
        messages[m].status = "failed" =>
            \A q \in QueueNames, c \in Consumers :
                dequeue(queues, messages, consumers, arrival, q, c).message_id # m

\* C22: in every reachable state, for every queue that exists, enqueue(m)
\* followed by one dequeue and then acknowledge(m) leaves the queue's ordered
\* list of message ids as it was before the enqueue.
C22_EnqueueDequeueAckRestores ==
    \A q \in DOMAIN queues, p \in Priorities, c \in Consumers :
        LET e == enqueue(queues, messages, consumers, arrival, q, p)
            d == dequeue(e.queues, e.messages, e.consumers, e.arrival, q, c)
            a == acknowledge(d.messages, e.message_id, c)
        IN  a.status = "success" /\ d.queues[q] = queues[q]

\* C28: a request that names a message id or a queue the node does not know
\* (ack or nack of an unknown message, nack into a queue that does not exist,
\* dequeue from a queue that does not exist) is answered with an error and
\* leaves every message and every queue as it was.
C28_UnknownTargetChangesNothing ==
    /\ \A m \in MsgIds \ DOMAIN messages, c \in Consumers :
           LET r == acknowledge(messages, m, c)
           IN  r.status = "error" /\ r.messages = messages
    /\ \A q \in QueueNames \ DOMAIN queues, c \in Consumers :
           LET r == dequeue(queues, messages, consumers, arrival, q, c)
           IN  r.status = "error" /\ r.messages = messages /\ r.queues = queues
    /\ \A m \in MsgIds, q \in QueueNames :
           m \notin DOMAIN messages \/ q \notin DOMAIN queues =>
               LET r == negative_acknowledge(queues, messages, arrival, m, q)
               IN  r.status = "error" /\ r.messages = messages /\ r.queues = queues

\* C35: an ack by a consumer the message was not delivered to, or of a
\* message that is not in PROCESSING, is rejected and leaves the message's
\* status as it was.
C35_ForeignAckRejected ==
    \A m \in DOMAIN messages, c \in Consumers :
        c \notin messages[m].delivered_to \/ messages[m].status # "processing" =>
            LET r == acknowledge(messages, m, c)
            IN  /\ r.status # "success"
                /\ r.messages[m].status = messages[m].status

(***************************************************************************)
(*                      Properties of the cache nodes                      *)
(***************************************************************************)

\* the nodes whose cache holds key k in one of the given states
HoldersIn(k, states) ==
    {n \in CacheNodes : \E i \in 1 .. Len(cache[n]) :
         cache[n][i].key = k /\ cache[n][i].state \in states}

\* C3: for every key at most one node holds it MODIFIED or EXCLUSIVE, and
\* while one does no node holds it SHARED.
C3_SingleWriter ==
    \A k \in CacheKeys :
        /\ Cardinality(HoldersIn(k, {"modified", "exclusive"})) <= 1
        /\ HoldersIn(k, {"modified", "exclusive"}) # {} => HoldersIn(k, {"shared"}) = {}


\* C23: on every node (one per replacement policy) and in every reachable
\* cache state, a full cache included, put(k, v) followed at once by get(k)
\* returns a hit with value v.
C23_PutThenGetHits ==
    \A n \in CacheNodes, k \in CacheKeys, v \in CacheValues :
        LET p == cache_node_put(n, cache[n], cache_directory[n], k, v)
            g == cache_node_get(n, p.cache, p.directory, k)
        IN  g.status = "hit" /\ g.value = v

\* C24: the first put of a key on a node returns version 1, a later put of
\* the same key returns the version the entry had plus one, and a get that
\* follows and hits returns the version the put returned.
C24_PutBumpsVersion ==
    \A n \in CacheNodes, k \in CacheKeys, v \in CacheValues :
        LET i == KeyIndex(cache[n], k)
            p == cache_node_put(n, cache[n], cache_directory[n], k, v)
            g == cache_node_get(n, p.cache, p.directory, k)
        IN  /\ p.version = IF i = 0 THEN 1 ELSE cache[n][i].version + 1
            /\ g.status = "hit" => g.version = p.version

\* the entries of cache c with the oldest creation time
Oldest(c) ==
    {i \in 1 .. Len(c) : \A j \in 1 .. Len(c) : c[i].created_at <= c[j].created_at}

\* C25: on a node with the FIFO policy, an insert into a full cache evicts
\* the entry with the oldest creation time and no other, however the entries
\* were read or overwritten before.
C25_FifoEvictsOldest ==
    \A n \in {m \in CacheNodes : Policy[m] = "fifo"}, k \in FifoKeys, v \in FifoValues :
        LET c == cache[n]
            p == cache_node_put(n, c, cache_directory[n], k, v)
        IN  KeyIndex(c, k) = 0 /\ Len(c) = Capacity[n] =>
              \A i \in 1 .. Len(c) :
                  KeyIndex(p.cache, c[i].key) = 0 <=> i \in Oldest(c)

(***************************************************************************)
(*                      Properties of the Raft nodes                       *)
(***************************************************************************)

SmallerOf(a, b) == IF a < b THEN a ELSE b

\* C2: for any two nodes and any index N both have applied, the entries of
\* the two logs at the indices 1 .. N are identical.
C2_AppliedLogsAgree ==
    \A n1, n2 \in RaftNodes :
        \A N \in 1 .. SmallerOf(raft[n1].last_applied, raft[n2].last_applied) :
            \A i \in 1 .. N :
                (i < Len(raft[n1].log) /\ i < Len(raft[n2].log)) =>
                    LogAt(raft[n1].log, i) = LogAt(raft[n2].log, i)

\* the requests in flight that are AppendEntries
AppendRequests == {m \in rpc_sent : m.type = "AppendEntries"}

\* the entries of an AppendEntries all match the follower's log: wherever the
\* log has an entry at the index of a carried entry, it is that entry (same
\* term, and same command and index as well)
EntriesMatch(log, request) ==
    \A k \in 1 .. Len(request.entries) :
        request.prev_log_index + k < Len(log) =>
            LogAt(log, request.prev_log_index + k) = request.entries[k]

\* old is a prefix of new: no entry of old was removed or replaced
IsPrefix(old, new) ==
    /\ Len(old) <= Len(new)
    /\ \A i \in 1 .. Len(old) : new[i] = old[i]

\* C11: an AppendEntries whose entries all match the follower's log (no
\* carried entry differs, in term or otherwise, from the entry the log has at
\* its index) removes or replaces no entry of that log: the log before is a
\* prefix of the log after.
C11_MatchingAppendKeepsLog ==
    \A m \in AppendRequests :
        EntriesMatch(raft[m.to].log, m) =>
            IsPrefix(raft[m.to].log, handle_append_entries(raft[m.to], m).self.log)

\* the indices whose entry the loop of apply_committed_entries has applied
\* between the node states before and after: the loop adds one to
\* last_applied and then reads self.log[self.last_applied]
AppliedIndices(before, after) ==
    {i \in before.last_applied + 1 .. after.last_applied : i < Len(after.log)}

\* C12: when replicate_command returns True for an entry, that entry (the one
\* the call appended, at index len(log) before the call) has been applied by
\* the call, the first entry of the log included.
C12_ReplicatedIsApplied ==
    \A n \in RaftNodes, c \in Commands :
        LET r == replicate_command(raft[n], c)
        IN  r.result => Len(raft[n].log) \in AppliedIndices(raft[n], r.self)

\* the leader itself and the peers whose match_index is at least N
ReplicatedOn(self, N) ==
    {self.node_id} \cup {m \in DOMAIN self.match_index : self.match_index[m] >= N}

\* C13: when replicate_command of a leader sets commit_index to N (it returns
\* True), the leader and the peers whose match_index is at least N are a
\* majority of the cluster and log[N] carries the leader's current term.
C13_CommitHasMajority ==
    \A n \in RaftNodes, c \in Commands :
        LET r == replicate_command(raft[n], c)
            N == r.self.commit_index
        IN  r.result =>
              /\ Cardinality(ReplicatedOn(r.self, N)) >= (cluster_size \div 2) + 1
              /\ LogAt(r.self.log, N).term = r.self.current_term

\* the index of the last entry an AppendEntries covers: the prefix it matched
\* (up to prev_log_index) and the entries it carried
LastCovered(request) == request.prev_log_index + Len(request.entries)

\* C14: a successful AppendEntries with leader_commit greater than the
\* follower's commit_index never raises the follower's commit_index beyond
\* the last entry the request covered (the prefix it matched or carried).
C14_CommitWithinCovered ==
    \A m \in AppendRequests :
        LET r == handle_append_entries(raft[m.to], m)
        IN  /\ r.success
            /\ m.leader_commit > raft[m.to].commit_index
            /\ r.self.commit_index > raft[m.to].commit_index
            => r.self.commit_index <= LastCovered(m)

\* the requests in flight that are RequestVote
VoteRequests == {m \in rpc_sent : m.type = "RequestVote"}

\* C15: handle_request_vote grants the vote if and only if the request's term
\* is at least the node's current term, the node has not voted for a
\* different candidate in that term (a vote of an older term does not count),
\* and the candidate's last log term is higher than the node's, or equal with
\* a last log index at least the node's; on a grant voted_for is the
\* candidate.
C15_VoteGrantedIff ==
    \A m \in VoteRequests :
        LET self == raft[m.to]
            r == handle_request_vote(self, m)
            our_last_term == IF self.log = <<>> THEN 0 ELSE self.log[Len(self.log)].term
        IN  /\ r.vote_granted <=>
                  /\ m.term >= self.current_term
                  /\ \/ m.term > self.current_term
                     \/ self.voted_for \in {"", m.sender}
                  /\ \/ m.last_log_term > our_last_term
                     \/ /\ m.last_log_term = our_last_term
                        /\ m.last_log_index >= Len(self.log) - 1
            /\ r.vote_granted => r.self.voted_for = m.sender

\* C15 witness: a node that was the LEADER of its term (it still has its
\* next_index) has handled the RequestVote of a higher term, stepped down and
\* recorded its vote for the candidate.
C15_Witness ==
    /\ rpc_sent = {}
    /\ raft["r2"].state = "follower"
    /\ raft["r2"].next_index # << >>
    /\ raft["r2"].voted_for = "r1"
    /\ raft["r2"].current_term = raft["r1"].current_term

\* C16: handle_append_entries replies success if and only if the request's
\* term is at least the node's current term and the prefix matches (the log
\* has an entry at prev_log_index with term prev_log_term, or prev_log_index
\* is negative); on a stale term it replies failure and the node is as before.
C16_AppendSuccessIff ==
    \A m \in AppendRequests :
        LET self == raft[m.to]
            r == handle_append_entries(self, m)
        IN  /\ r.success <=>
                  /\ m.term >= self.current_term
                  /\ \/ m.prev_log_index < 0
                     \/ /\ m.prev_log_index < Len(self.log)
                        /\ self.log[m.prev_log_index + 1].term = m.prev_log_term
            /\ m.term < self.current_term =>
                  /\ ~r.success
                  /\ r.term = self.current_term
                  /\ r.self.current_term = self.current_term
                  /\ r.self.state = self.state
                  /\ r.self.log = self.log
                  /\ r.self.commit_index = self.commit_index

\* C16 witness: the node has handled an AppendEntries of the leader r1 whose
\* prev_log_index is 0 (r1 sends from next_index 1), it matched the entry the
\* log has at index 0, and commit_index has moved (the apply task created for
\* it is pending).
C16_Witness ==
    /\ rpc_sent = {}
    /\ apply_task["r2"]
    /\ raft["r2"].leader_id = "r1"
    /\ raft["r1"].state = "leader" /\ raft["r1"].next_index["r2"] = 1
    /\ Len(raft["r2"].log) = 2
    /\ raft["r2"].log[1].term < raft["r2"].log[2].term
    /\ raft["r2"].commit_index = 1


\* C32: current_term never decreases, and a handler that sees a term higher
\* than current_term adopts it, makes the node a FOLLOWER and clears voted_for
\* before it goes on: the reply carries the new term, a vote is then decided
\* by the logs alone, and an AppendEntries leaves voted_for empty.
C32_HigherTermAdopted ==
    /\ \A n \in RaftNodes :
           start_election(raft[n]).current_term = raft[n].current_term + 1
    /\ \A m \in rpc_sent :
           LET self == raft[m.to]
               v == handle_request_vote(self, m)
               a == handle_append_entries(self, m)
           IN  /\ v.self.current_term >= self.current_term
               /\ a.self.current_term >= self.current_term
               /\ m.term > self.current_term =>
                      /\ v.self.current_term = m.term /\ v.term = m.term
                      /\ v.self.state = "follower"
                      /\ v.vote_granted <=>
                             log_is_up_to_date(self.log, m.last_log_index,
                                               m.last_log_term)
                      /\ v.self.voted_for = IF v.vote_granted THEN m.sender ELSE ""
                      /\ a.self.current_term = m.term /\ a.term = m.term
                      /\ a.self.state = "follower"
                      /\ a.self.voted_for = ""

\* C32 witness: a node that was the LEADER of an older term (it voted for
\* itself and still has its next_index) has handled the AppendEntries of a
\* leader of a higher term: it is a follower in that term and its vote is
\* cleared.
C32_Witness ==
    /\ rpc_sent = {}
    /\ raft["r2"].state = "follower"
    /\ raft["r2"].next_index # << >>
    /\ raft["r2"].leader_id = "r1"
    /\ raft["r2"].voted_for = ""
    /\ raft["r2"].current_term = raft["r1"].current_term
    /\ raft["r1"].state = "leader"

\* C33: replicate_command on a leader returns True and sets commit_index to
\* the index of the new entry whenever the leader and the peers that
\* acknowledged are a quorum of the cluster; here the cluster is the leader
\* alone, which is the quorum of a cluster of one.
C33_QuorumCommits ==
    \A c \in Commands :
        LET r == replicate_command_in(solo_cluster, solo, c)
        IN  /\ solo.state = "leader"
            /\ 1 >= (Len(solo_cluster) \div 2) + 1
            => /\ r.result
               /\ r.self.commit_index = Len(solo.log)

\* C37: in every reachable state of a cluster at most one node is LEADER for
\* any given term.
C37_OneLeaderPerTerm ==
    \A n1, n2 \in RaftNodes :
        /\ raft[n1].state = "leader"
        /\ raft[n2].state = "leader"
        /\ raft[n1].current_term = raft[n2].current_term
        => n1 = n2

\* C40: on every Raft node commit_index never decreases: whatever
\* AppendEntries request is in flight, handling it leaves the receiver's
\* commit_index at least where it was.
C40_CommitIndexNeverDecreases ==
    \A m \in rpc_sent :
        m.type = "AppendEntries" =>
            handle_append_entries(raft[m.to], m).self.commit_index
                >= raft[m.to].commit_index

(***************************************************************************)
(*                   Properties of the failure detector                    *)
(***************************************************************************)

\* the status the phi value calls for
StatusForPhi(phi_value) ==
    IF phi_value < phi_threshold THEN "alive"
    ELSE IF phi_value <= 2 * phi_threshold THEN "suspected"
    ELSE "dead"

\* C26: after a monitoring sweep the status of every monitored peer is the
\* one its current phi value calls for (alive below the threshold, suspected
\* from the threshold to twice the threshold, dead above), whatever the
\* status was before the sweep.
C26_SweepStatusAgreesWithPhi ==
    \A level \in PhiLevels :
        LET lv == [p \in Peers |-> <<level, level>>]
            r  == monitor_nodes(fd_nodes, node_status, lv)
        IN  \A p \in DOMAIN fd_nodes :
                r.node_status[p] = StatusForPhi(phi(fd_nodes[p], level))


\* C34: every heartbeat of a peer after its first one records one
\* inter-arrival sample, up to max_sample_size of them.  A peer whose status
\* is alive has sent a heartbeat (only record_heartbeat sets that status), so
\* its next heartbeat adds a sample to a window that is not full; and phi is 0
\* while the window holds fewer than two samples.
C34_HeartbeatRecordsSample ==
    \A p \in DOMAIN fd_nodes :
        LET detector == fd_nodes[p]
            n == Len(detector.intervals)
        IN  /\ n < 2 => \A level \in PhiLevels : phi(detector, level) = 0
            /\ node_status[p] = "alive" =>
                   Len(heartbeat(detector, fd_now).intervals) =
                       IF n < max_sample_size THEN n + 1 ELSE max_sample_size

(***************************************************************************)
(*                    Properties of the message passer                     *)
(***************************************************************************)

\* C27: over any sequence of receive_message calls the handler is called at
\* most once for each message_id; a message whose id was already received is
\* not handed to the handler again, changes nothing in the passer, and is
\* acknowledged again exactly when it requires an ACK.
C27_HandledAtMostOnce ==
    /\ \A id \in MessageIds : mp_handled[id] <= 1
    /\ \A m \in PassedMessages :
           m.message_id \in DOMAIN received_messages =>
               LET r == receive_message(received_messages, messages_received,
                                        message_handlers, m)
               IN  /\ ~r.handled
                   /\ r.acked = m.requires_ack
                   /\ r.received_messages = received_messages
                   /\ r.messages_received = messages_received

\* a message was handled, then received again and acknowledged a second time
C27_Witness ==
    \E id \in MessageIds :
        /\ mp_handled[id] = 1
        /\ mp_acked[id] >= 2
        /\ messages_received < mp_calls


(***************************************************************************)
(*                    Properties of the consistent hash                    *)
(***************************************************************************)

\* the node among `members' that owns the first virtual node at or after the
\* hash of the key, going round the ring
OwnerAmong(members, key) ==
    IF members = {} THEN "None"
    ELSE LET points == UNION {{<<h, n>> : h \in virtual_hashes(n)} : n \in members}
             after  == {pt \in points : pt[1] >= hash(key)}
             from   == IF after # {} THEN after ELSE points
         IN  (CHOOSE pt \in from : \A o \in from : pt[1] <= o[1])[2]

\* C29: get_node(k) is a function of k and of the current set of member
\* nodes, whatever the order of the add_node and remove_node calls that led
\* to it; and removing a member x leaves get_node(k) as it was for every key
\* that was not mapped to x.
C29_GetNodeDependsOnMembers ==
    /\ \A k \in RingKeys :
           get_node(ring, sorted_keys, k) = OwnerAmong(ch_nodes, k)
    /\ \A x \in ch_nodes, k \in RingKeys :
           LET before == get_node(ring, sorted_keys, k)
               r      == remove_node(ring, sorted_keys, ch_nodes, x)
           IN  before # x => get_node(r.ring, r.sorted_keys, k) = before

\* a member was removed from a ring of three: one key moved off it and
\* another key stayed where it was
C29_Witness ==
    /\ ch_call.op = "remove_node"
    /\ Cardinality(ch_nodes) = 2
    /\ ch_call.arg \notin ch_nodes
    /\ \E k \in RingKeys : OwnerAmong(ch_nodes \cup {ch_call.arg}, k) = ch_call.arg
    /\ \E k \in RingKeys :
           /\ OwnerAmong(ch_nodes \cup {ch_call.arg}, k) # ch_call.arg
           /\ get_node(ring, sorted_keys, k) = OwnerAmong(ch_nodes \cup {ch_call.arg}, k)

====
